---- MODULE Spec2Model ----
(***************************************************************************)
(* A model of the keyed audio engine (packages/engine/cpp): the Engine     *)
(* orchestrator, the streaming resampler, the streaming mel and CQT        *)
(* extractors, the two model adapters and the activation ring buffer.      *)
(*                                                                         *)
(* Audio is kept run-length encoded: a signal is a sequence of runs        *)
(* [v |-> sample value, n |-> number of consecutive samples], no run       *)
(* empty and no two adjacent runs of the same value.  Every array of the   *)
(* program that holds samples (resampler history, the circular buffers of  *)
(* the extractors) is kept in array-index order in that encoding, so the   *)
(* loops over samples of the source are executed a run at a time.          *)
(* Floating point is replaced by exact integer arithmetic: samples are     *)
(* integers, the FIR coefficients are the source's coefficients in Q16,    *)
(* probabilities are hundredths, a BPM value is kept in half-BPM units.     *)
(***************************************************************************)
EXTENDS Integers, Sequences, FiniteSets, Bags, TLC

(***************************************************************************)
(* Run-length encoded signals.                                             *)
(***************************************************************************)
RConst(v, n) == IF n <= 0 THEN << >> ELSE << [v |-> v, n |-> n] >>

\* the sum of a sequence of naturals: the cardinality of the bag that holds
\* i as often as q[i] + 1 says, less the ones
Sum(q) == BagCardinality([i \in 1..Len(q) |-> q[i] + 1]) - Len(q)

RLen(r) == Sum([i \in 1..Len(r) |-> r[i].n])

RCat(a, b) ==
    IF a = << >> THEN b
    ELSE IF b = << >> THEN a
    ELSE IF a[Len(a)].v = b[1].v
         THEN SubSeq(a, 1, Len(a) - 1)
              \o << [v |-> b[1].v, n |-> a[Len(a)].n + b[1].n] >>
              \o Tail(b)
         ELSE a \o b

\* the number of samples in the first j runs
RPrefix(r, j) == Sum([i \in 1..j |-> r[i].n])

\* the first k samples
RTake(r, k) ==
    IF k <= 0 THEN << >>
    ELSE IF k >= RLen(r) THEN r
    ELSE LET j == CHOOSE j \in 1..Len(r) : RPrefix(r, j - 1) < k /\ k <= RPrefix(r, j)
         IN  SubSeq(r, 1, j - 1) \o << [v |-> r[j].v, n |-> k - RPrefix(r, j - 1)] >>

\* all but the first k samples
RDrop(r, k) ==
    IF k <= 0 THEN r
    ELSE IF k >= RLen(r) THEN << >>
    ELSE LET j == CHOOSE j \in 1..Len(r) : RPrefix(r, j - 1) <= k /\ k < RPrefix(r, j)
         IN  << [v |-> r[j].v, n |-> RPrefix(r, j) - k] >> \o SubSeq(r, j + 1, Len(r))

RSub(r, from, len) == RTake(RDrop(r, from), len)

Min(a, b) == IF a <= b THEN a ELSE b
Max(a, b) == IF a >= b THEN a ELSE b
Abs(a) == IF a < 0 THEN -a ELSE a

\* dst[pos .. pos+len) := data, for a linear array dst (0 <= pos, pos+len <= size)
RStore(dst, pos, data) ==
    RCat(RCat(RTake(dst, pos), data), RDrop(dst, pos + RLen(data)))

\* The array after "for each sample s of data: buf[writePos % size] = s; writePos++"
CircWrite(buf, writePos, data) ==
    LET size == RLen(buf)
        len  == RLen(data)
        keep == IF len > size THEN RDrop(data, len - size) ELSE data
        p    == (writePos + (len - RLen(keep))) % size
        k    == RLen(keep)
    IN  IF k = 0 THEN buf
        ELSE IF p + k <= size THEN RStore(buf, p, keep)
        ELSE RStore(RStore(buf, p, RTake(keep, size - p)), 0, RDrop(keep, size - p))

\* <<buf[start % size], buf[(start+1) % size], ..>>, len entries (len <= size)
CircRead(buf, start, len) ==
    LET size == RLen(buf)
        p    == start % size
    IN  IF p + len <= size THEN RSub(buf, p, len)
        ELSE RCat(RSub(buf, p, size - p), RSub(buf, 0, len - (size - p)))

(***************************************************************************)
(* Resampler (Resampler.cpp): 2:1 decimating FIR low-pass filter.          *)
(***************************************************************************)
filterLength_ == 127
ratio_ == 2
historySize_ == filterLength_ - 1

\* generateSincFilter(127, 0.45): the normalised windowed-sinc taps, in Q16
coefficients_ ==
    << 0, 0, 0, 0, 1, 0, -2, -2, 3, 4, -3, -7,
       1, 12, 2, -16, -9, 19, 19, -18, -32, 13, 47, 0,
       -61, -22, 70, 52, -70, -90, 56, 131, -24, -170, -29, 197,
       104, -204, -196, 179, 299, -114, -399, 0, 480, 165, -523, -379,
       503, 635, -395, -920, 169, 1215, 215, -1499, -830, 1749, 1855, -1946,
       -3961, 2071, 13279, 42281, 13279, 2071, -3961, -1946, 1855, 1749, -830, -1499,
       215, 1215, 169, -920, -395, 635, 503, -379, -523, 165, 480, 0,
       -399, -114, 299, 179, -196, -204, 104, 197, -29, -170, -24, 131,
       56, -90, -70, 52, 70, -22, -61, 0, 47, 13, -32, -18,
       19, 19, -9, -16, 2, 12, 1, -7, -3, 4, 3, -2,
       -2, 0, 1, 0, 0, 0, 0 >>

\* coeffPrefix[i+1] = coefficients_[1] + .. + coefficients_[i]
RECURSIVE CoeffPrefixFrom(_, _)
CoeffPrefixFrom(i, acc) ==
    IF i > filterLength_ THEN << acc >>
    ELSE << acc >> \o CoeffPrefixFrom(i + 1, acc + coefficients_[i])
coeffPrefix == CoeffPrefixFrom(1, 0)

\* sum over k of window[k] * coefficients_[k] for a window of filterLength_ samples
RECURSIVE FirSum(_, _)
FirSum(window, at) ==
    IF window = << >> THEN 0
    ELSE window[1].v * (coeffPrefix[at + window[1].n + 1] - coeffPrefix[at + 1])
         + FirSum(Tail(window), at + window[1].n)

\* The decimation loop of process/processStreaming over the samples that are
\* left from the current window start on: one output per ratio_ inputs while
\* a whole filter window is left and the output has room.  The outputs whose
\* window starts in the first run are produced in one step: alike while the
\* window lies inside the run, one by one where it reaches over its end.
RECURSIVE FirLoop(_, _)
FirLoop(rest, room) ==
    IF room <= 0 \/ RLen(rest) < filterLength_ THEN << >>
    ELSE IF rest[1].n >= filterLength_
    THEN LET cnt == Min(room, (rest[1].n - filterLength_) \div ratio_ + 1)
         IN  RCat(RConst(rest[1].v * coeffPrefix[filterLength_ + 1], cnt),
                  FirLoop(RDrop(rest, ratio_ * cnt), room - cnt))
    ELSE LET avail == (RLen(rest) - filterLength_) \div ratio_ + 1
             cnt == Min(Min(room, avail), (rest[1].n + ratio_ - 1) \div ratio_)
             each == [j \in 1..cnt |->
                        [v |-> FirSum(RSub(rest, ratio_ * (j - 1), filterLength_), 0),
                         n |-> 1]]
         IN  RCat(each, FirLoop(RDrop(rest, ratio_ * cnt), room - cnt))

getOutputSize(inputSize) == inputSize \div ratio_

\* a variant of Resampler::process that reaches over the ends of the block,
\* the samples outside taken as zero
processPadded(input) ==
    FirLoop(RCat(RCat(RConst(0, filterLength_ \div 2), input),
                 RConst(0, filterLength_ \div 2)),
            RLen(input))

\* Resampler::process: the output samples; the output array is the caller's
\* and the loop does not look at its size
process(input) == FirLoop(input, RLen(input))

\* Resampler::processStreaming: [out |-> produced samples, history |-> new history_]
processStreaming(history, input, maxOutputSize) ==
    LET buffer == RCat(history, input)
        bufferSize == RLen(buffer)
    IN  [out |-> FirLoop(buffer, maxOutputSize),
         history |-> IF bufferSize >= historySize_
                     THEN RDrop(buffer, bufferSize - historySize_)
                     ELSE history]

Resampler_reset(history) == RConst(0, historySize_)

(***************************************************************************)
(* Mel extractor (MelExtractor.cpp).  The 136 bands are collapsed into     *)
(* one: the band value of a frame is the sum of the magnitudes of its      *)
(* samples, which stands for window, FFT, filterbank and log scaling.      *)
(***************************************************************************)
HOP_LENGTH == 441
WIN_LENGTH == 1411
MEL_PADDING == WIN_LENGTH \div 2
MAX_FRAMES == 64

\* The float range: FloatMax stands for FLT_MAX, the largest finite value of
\* a float, and a sum beyond it is infinite.
FloatMax == 100000000
Inf == FloatMax + 1
IsFinite(x) == -FloatMax <= x /\ x <= FloatMax

Magnitude(frame) ==
    LET term(i) == IF frame[i].n > 0 /\ Abs(frame[i].v) > FloatMax \div frame[i].n
                   THEN Inf
                   ELSE Abs(frame[i].v) * frame[i].n
        s == Sum([i \in 1..Len(frame) |-> term(i)])
    IN  IF s > FloatMax THEN Inf ELSE s

\* a faulty variant of processFrame: the difference of the first frame is
\* taken against the zeros of previousLogMel
processFrameUnforced(ext, frame, frameLength) ==
    LET len == Min(frameLength, WIN_LENGTH)
        logMelBuffer == Magnitude(RTake(frame, len))
        d == logMelBuffer - ext.previousLogMel
    IN  [features |-> [logMel |-> logMelBuffer, diff |-> IF d > 0 THEN d ELSE 0],
         ext |-> [hasPreviousFrame |-> TRUE, previousLogMel |-> logMelBuffer]]

\* MelExtractor::processFrame on the extractor state ext:
\* [features |-> [logMel, diff], ext |-> new state]
processFrame(ext, frame, frameLength) ==
    LET len == Min(frameLength, WIN_LENGTH)
        logMelBuffer == Magnitude(RTake(frame, len))
        d == logMelBuffer - ext.previousLogMel
        diffBuffer == IF ~ext.hasPreviousFrame THEN 0
                      ELSE IF logMelBuffer = Inf
                      THEN (IF ext.previousLogMel = Inf THEN 0 ELSE Inf)
                      ELSE IF d > 0 THEN d ELSE 0
    IN  [features |-> [logMel |-> logMelBuffer, diff |-> diffBuffer],
         ext |-> [hasPreviousFrame |-> TRUE, previousLogMel |-> logMelBuffer]]

MelExtractor_reset(ext) == [hasPreviousFrame |-> FALSE, previousLogMel |-> 0]

\* a faulty variant of StreamingMelExtractor::reset: the extractor inside
\* keeps the frame it compares the next frame with
StreamingMel_resetBuffer(st) ==
    [extractor |-> st.extractor,
     buffer |-> RConst(0, RLen(st.buffer)),
     writePos |-> MEL_PADDING,
     samplesUntilNextFrame |-> WIN_LENGTH - MEL_PADDING]

\* a faulty variant of StreamingMelExtractor::Impl::Impl: no padding before
\* the first sample, the first frame after a whole window
StreamingMelInitUncentred ==
    [extractor |-> [hasPreviousFrame |-> FALSE, previousLogMel |-> 0],
     buffer |-> RConst(0, WIN_LENGTH + HOP_LENGTH),
     writePos |-> 0,
     samplesUntilNextFrame |-> WIN_LENGTH]

\* StreamingMelExtractor::Impl::Impl
StreamingMelInit ==
    [extractor |-> [hasPreviousFrame |-> FALSE, previousLogMel |-> 0],
     buffer |-> RConst(0, WIN_LENGTH + HOP_LENGTH),
     writePos |-> MEL_PADDING,
     samplesUntilNextFrame |-> WIN_LENGTH - MEL_PADDING]

StreamingMel_reset(st) ==
    [extractor |-> MelExtractor_reset(st.extractor),
     buffer |-> RConst(0, RLen(st.buffer)),
     writePos |-> MEL_PADDING,
     samplesUntilNextFrame |-> WIN_LENGTH - MEL_PADDING]

\* One round of the sample loop of StreamingMelExtractor::push: the samples
\* up to the next frame boundary, and the frame if the boundary is reached.
\* x: [st, rest, frames], rest the samples not yet consumed, frames the
\* feature frames produced so far.
MelStep(x, maxFrames) ==
    IF x.rest = << >> \/ Len(x.frames) >= maxFrames THEN x
    ELSE LET st == x.st
             k == Max(1, Min(RLen(x.rest), st.samplesUntilNextFrame))
             buf == CircWrite(st.buffer, st.writePos, RTake(x.rest, k))
             wp == st.writePos + k
             until == st.samplesUntilNextFrame - k
             startPos == wp - WIN_LENGTH
             pf == processFrame(st.extractor, CircRead(buf, startPos, WIN_LENGTH),
                                WIN_LENGTH)
         IN  IF until <= 0
             THEN [st |-> [extractor |-> pf.ext, buffer |-> buf, writePos |-> wp,
                           samplesUntilNextFrame |-> HOP_LENGTH],
                   rest |-> RDrop(x.rest, k),
                   frames |-> Append(x.frames, pf.features)]
             ELSE [st |-> [st EXCEPT !.buffer = buf, !.writePos = wp,
                                     !.samplesUntilNextFrame = until],
                   rest |-> RDrop(x.rest, k),
                   frames |-> x.frames]

\* rounds rounds of the loop, by halves
RECURSIVE MelRounds(_, _, _)
MelRounds(x, rounds, maxFrames) ==
    IF rounds <= 1 THEN MelStep(x, maxFrames)
    ELSE LET half == MelRounds(x, rounds \div 2, maxFrames)
         IN  IF half.rest = << >> \/ Len(half.frames) >= maxFrames THEN half
             ELSE MelRounds(half, rounds - rounds \div 2, maxFrames)

\* a faulty variant of StreamingMelExtractor::push: every call counts a whole
\* hop from its first sample to its first frame
StreamingMel_pushRestart(st, samples, maxFrames) ==
    LET x == MelRounds([st |-> [st EXCEPT !.samplesUntilNextFrame = HOP_LENGTH],
                        rest |-> samples, frames |-> << >>],
                       maxFrames + 1, maxFrames)
    IN  [st |-> x.st, frames |-> x.frames]

\* StreamingMelExtractor::push: every round but the last produces a frame
StreamingMel_push(st, samples, maxFrames) ==
    LET x == MelRounds([st |-> st, rest |-> samples, frames |-> << >>],
                       maxFrames + 1, maxFrames)
    IN  [st |-> x.st, frames |-> x.frames]

(***************************************************************************)
(* CQT extractor (CqtExtractor.cpp).  Of the 105 bins the lowest and the   *)
(* highest are kept; a bin is the magnitude of the centre filterLength     *)
(* samples of the frame audio.                                             *)
(***************************************************************************)
CQT_HOP_LENGTH == 8820
MAX_FILTER_LENGTH == 23200
CQT_BUFFER_SIZE == MAX_FILTER_LENGTH + CQT_HOP_LENGTH
CQT_PADDING == MAX_FILTER_LENGTH \div 2
MAX_CQT_FRAMES == 20
\* computeFilterLengths: ceil(Q * 44100 / f_k) for k = 0 and k = 104
filterLengths == << 23154, 1149 >>

CqtBin(audio, numSamples, len) ==
    IF numSamples < len THEN 0
    ELSE Magnitude(RSub(audio, (numSamples - len) \div 2, len))

\* CqtExtractor::processFrame
Cqt_processFrame(audio, numSamples) ==
    [k \in 1..Len(filterLengths) |-> CqtBin(audio, numSamples, filterLengths[k])]

\* a faulty variant of StreamingCqtExtractor::Impl::Impl: the write position
\* is left at the start of the buffer
StreamingCqtInitUnpadded ==
    [buffer |-> RConst(0, CQT_BUFFER_SIZE),
     writePos |-> 0,
     samplesReceived |-> 0,
     frameCount |-> 0]

StreamingCqtInit ==
    [buffer |-> RConst(0, CQT_BUFFER_SIZE),
     writePos |-> CQT_PADDING,
     samplesReceived |-> 0,
     frameCount |-> 0]

StreamingCqt_reset(st) ==
    [buffer |-> RConst(0, RLen(st.buffer)),
     writePos |-> CQT_PADDING,
     samplesReceived |-> 0,
     frameCount |-> 0]

\* a faulty variant of the round: a frame that finds the output array full
\* is not counted
CqtStepStalled(x, maxFrames) ==
    IF x.rest = << >> THEN x
    ELSE LET st == x.st
             need == st.frameCount * CQT_HOP_LENGTH + MAX_FILTER_LENGTH \div 2
             k == Max(1, Min(RLen(x.rest), need - st.samplesReceived))
             buf == CircWrite(st.buffer, st.writePos, RTake(x.rest, k))
             wp == st.writePos + k
             received == st.samplesReceived + k
             frameCenter == st.frameCount * CQT_HOP_LENGTH
             startSample == frameCenter - MAX_FILTER_LENGTH \div 2
             frameAudio == CircRead(buf, CQT_PADDING + startSample, MAX_FILTER_LENGTH)
         IN  IF received >= need /\ Len(x.frames) < maxFrames
             THEN [st |-> [buffer |-> buf, writePos |-> wp,
                           samplesReceived |-> received,
                           frameCount |-> st.frameCount + 1],
                   rest |-> RDrop(x.rest, k),
                   frames |-> Append(x.frames,
                                     Cqt_processFrame(frameAudio, MAX_FILTER_LENGTH))]
             ELSE [st |-> [st EXCEPT !.buffer = buf, !.writePos = wp,
                                     !.samplesReceived = received],
                   rest |-> RDrop(x.rest, k),
                   frames |-> x.frames]

\* One round of the sample loop of StreamingCqtExtractor::push: the samples
\* up to the one at which the next frame becomes available, and that frame.
\* x: [st, rest, frames]
CqtStep(x, maxFrames) ==
    IF x.rest = << >> THEN x
    ELSE LET st == x.st
             need == st.frameCount * CQT_HOP_LENGTH + MAX_FILTER_LENGTH \div 2
             k == Max(1, Min(RLen(x.rest), need - st.samplesReceived))
             buf == CircWrite(st.buffer, st.writePos, RTake(x.rest, k))
             wp == st.writePos + k
             received == st.samplesReceived + k
             frameCenter == st.frameCount * CQT_HOP_LENGTH
             startSample == frameCenter - MAX_FILTER_LENGTH \div 2
             frameAudio == CircRead(buf, CQT_PADDING + startSample, MAX_FILTER_LENGTH)
         IN  IF received >= need
             THEN [st |-> [buffer |-> buf, writePos |-> wp,
                           samplesReceived |-> received,
                           frameCount |-> st.frameCount + 1],
                   rest |-> RDrop(x.rest, k),
                   frames |-> IF Len(x.frames) < maxFrames
                              THEN Append(x.frames,
                                          Cqt_processFrame(frameAudio, MAX_FILTER_LENGTH))
                              ELSE x.frames]
             ELSE [st |-> [st EXCEPT !.buffer = buf, !.writePos = wp,
                                     !.samplesReceived = received],
                   rest |-> RDrop(x.rest, k),
                   frames |-> x.frames]

\* rounds rounds of the loop, by halves
RECURSIVE CqtRounds(_, _, _)
CqtRounds(x, rounds, maxFrames) ==
    IF rounds <= 1 THEN CqtStep(x, maxFrames)
    ELSE LET half == CqtRounds(x, rounds \div 2, maxFrames)
         IN  IF half.rest = << >> THEN half
             ELSE CqtRounds(half, rounds - rounds \div 2, maxFrames)

\* StreamingCqtExtractor::push: every round but the last completes a frame,
\* and the frames of a call are at least a hop apart
StreamingCqt_push(st, samples, maxFrames) ==
    LET x == CqtRounds([st |-> st, rest |-> samples, frames |-> << >>],
                       RLen(samples) \div CQT_HOP_LENGTH + 2, maxFrames)
    IN  [st |-> x.st, frames |-> x.frames]

(***************************************************************************)
(* Beat model adapter (OnnxModel.cpp).  Probabilities and raw outputs are  *)
(* in hundredths; the two LSTM tensors are one small integer each, zero    *)
(* standing for the all-zero tensor.  The runtime is opaque: BeatRun is a  *)
(* fixed deterministic function of the input frame and the recurrent       *)
(* state, chosen so that every input of it changes some output.            *)
(***************************************************************************)
HiddenMod == 5
CellMod == 3
RawOutputs ==
    << <<70, 20, 10>>, <<10, 10, 80>>, <<200, 100, 0>>, <<0, 0, 0>>, <<30, 60, 10>> >>

BeatRun(features, hidden, cell) ==
    LET x == features.logMel + 3 * features.diff
    IN  [output |-> RawOutputs[((x + 2 * hidden + cell) % Len(RawOutputs)) + 1],
         hidden |-> (hidden + 1 + (x % 2)) % HiddenMod,
         cell   |-> (cell + hidden + x + 1) % CellMod]

\* exp(-d) in hundredths, d a non-negative multiple of 1.0 given in hundredths
ExpTable == << 100, 37, 14, 5, 2, 1 >>
Exp(negd) ==
    LET i == ((-negd) \div 100) + 1
    IN  IF i <= Len(ExpTable) THEN ExpTable[i] ELSE 0

\* The tail of OnnxModel::infer: softmax unless the output is already normalised
Probs(outputData) ==
    LET sum == outputData[1] + outputData[2] + outputData[3]
        maxVal == Max(outputData[1], Max(outputData[2], outputData[3]))
        exp0 == Exp(outputData[1] - maxVal)
        exp1 == Exp(outputData[2] - maxVal)
        exp2 == Exp(outputData[3] - maxVal)
        expSum == exp0 + exp1 + exp2
    IN  IF Abs(sum - 100) > 1
        THEN << (exp0 * 100) \div expSum, (exp1 * 100) \div expSum,
                (exp2 * 100) \div expSum >>
        ELSE outputData

OnnxModelInit == [isLoaded |-> FALSE, hidden |-> 0, cell |-> 0]

OnnxModel_isReady(m) == m.isLoaded

\* a faulty variant of OnnxModel::resetState: the cell state is zeroed, the
\* hidden state is kept
OnnxModel_resetCell(m) == [m EXCEPT !.cell = 0]

\* initializeLstmState
OnnxModel_resetState(m) == [m EXCEPT !.hidden = 0, !.cell = 0]

\* a faulty variant of OnnxModel::load: the model is marked loaded before
\* the session is created and stays so when the creation fails
OnnxModel_loadMarked(m, sessionOk) ==
    IF sessionOk
    THEN [ret |-> TRUE, m |-> [isLoaded |-> TRUE, hidden |-> 0, cell |-> 0]]
    ELSE [ret |-> FALSE, m |-> [m EXCEPT !.isLoaded = TRUE]]

\* OnnxModel::load: cleanup() first, then the session is created or not
OnnxModel_load(m, sessionOk) ==
    IF sessionOk
    THEN [ret |-> TRUE, m |-> [isLoaded |-> TRUE, hidden |-> 0, cell |-> 0]]
    ELSE [ret |-> FALSE, m |-> [m EXCEPT !.isLoaded = FALSE]]

\* OnnxModel::infer; runOk: the runtime accepts the tensors and runs
OnnxModel_infer(m, features, runOk) ==
    IF ~OnnxModel_isReady(m) \/ ~runOk
    THEN [ret |-> FALSE, m |-> m, output |-> <<0, 0>>]
    ELSE LET r == BeatRun(features, m.hidden, m.cell)
             probs == Probs(r.output)
         IN  [ret |-> TRUE,
              m |-> [m EXCEPT !.hidden = r.hidden, !.cell = r.cell],
              output |-> << probs[1], probs[2] >>]

(***************************************************************************)
(* Key model adapter (KeyModel.cpp).                                       *)
(***************************************************************************)
NUM_CLASSES == 24
\* a faulty variant of the Camelot table: the major keys first
CamelotMajorFirst ==
    << "1B", "2B", "3B", "4B", "5B", "6B", "7B", "8B", "9B", "10B", "11B", "12B",
       "1A", "2A", "3A", "4A", "5A", "6A", "7A", "8A", "9A", "10A", "11A", "12A" >>

CAMELOT_KEYS ==
    << "1A", "2A", "3A", "4A", "5A", "6A", "7A", "8A", "9A", "10A", "11A", "12A",
       "1B", "2B", "3B", "4B", "5B", "6B", "7B", "8B", "9B", "10B", "11B", "12B" >>
NOTATION_KEYS ==
    << "G#m", "Ebm", "Bbm", "Fm", "Cm", "Gm", "Dm", "Am", "Em", "Bm", "F#m", "C#m",
       "B", "F#", "Db", "Ab", "Eb", "Bb", "F", "C", "G", "D", "A", "E" >>

\* [time][freq] -> [freq][time]
Transpose(cqtSpectrogram, numFrames) ==
    [f \in 1..Len(filterLengths) |-> [t \in 1..numFrames |-> cqtSpectrogram[t][f]]]

SeqSum(q) == Sum(q)

\* The opaque key network: 24 logits (hundredths), a fixed deterministic
\* function of the input tensor
KeyRun(transposed, numFrames) ==
    LET d == (SeqSum(transposed[1]) \div 1000) + 5 * (SeqSum(transposed[2]) \div 100)
             + numFrames
    IN  [i \in 1..NUM_CLASSES |->
            IF i = (d % NUM_CLASSES) + 1 THEN 300
            ELSE IF i = ((d \div NUM_CLASSES) % NUM_CLASSES) + 1 THEN 200
            ELSE 0]

RECURSIVE MaxFrom(_, _, _)
MaxFrom(q, i, best) ==
    IF i > Len(q) THEN best ELSE MaxFrom(q, i + 1, Max(best, q[i]))

\* KeyModel::softmax
softmax(logits) ==
    LET maxVal == MaxFrom(logits, 2, logits[1])
        e == [i \in 1..Len(logits) |-> Exp(logits[i] - maxVal)]
        sum == SeqSum(e)
    IN  [i \in 1..Len(logits) |-> (e[i] * 100) \div sum]

\* the argmax loop: first index (0-based) of the maximum
RECURSIVE ArgMaxFrom(_, _, _)
ArgMaxFrom(q, i, best) ==
    IF i > Len(q) THEN best - 1
    ELSE ArgMaxFrom(q, i + 1, IF q[i] > q[best] THEN i ELSE best)

KeyModelInit == [isLoaded |-> FALSE]

KeyModel_isReady(m) == m.isLoaded

\* KeyModel::load: cleanup() first, then the session is created or not
KeyModel_load(m, sessionOk) ==
    IF sessionOk
    THEN [ret |-> TRUE, m |-> [isLoaded |-> TRUE]]
    ELSE [ret |-> FALSE, m |-> [isLoaded |-> FALSE]]

NoKeyOutput == [keyIndex |-> -1, confidence |-> 0, camelot |-> "", notation |-> ""]

\* KeyModel::inferVariable
KeyModel_inferVariable(m, cqtSpectrogram, numFrames, runOk) ==
    IF ~KeyModel_isReady(m) \/ numFrames < 1 \/ ~runOk
    THEN [ret |-> FALSE, output |-> NoKeyOutput]
    ELSE LET probs == softmax(KeyRun(Transpose(cqtSpectrogram, numFrames), numFrames))
             predictedClass == ArgMaxFrom(probs, 2, 1)
         IN  [ret |-> TRUE,
              output |-> [keyIndex |-> predictedClass,
                          confidence |-> probs[predictedClass + 1],
                          camelot |-> CAMELOT_KEYS[predictedClass + 1],
                          notation |-> NOTATION_KEYS[predictedClass + 1]]]

(***************************************************************************)
(* Autocorrelation tempo estimator and activation ring (AutocorrBpm.hpp).  *)
(* The FFT autocorrelation is computed as the sum it stands for; a BPM     *)
(* value is kept in half-BPM units (BpmUnit per BPM), since halving an odd *)
(* rounded BPM gives a half.                                               *)
(***************************************************************************)
FPS == 50
MIN_BPM == 60
MAX_BPM == 180
DJ_MIN_BPM == 75
DJ_MAX_BPM == 165
BpmUnit == 2
DEFAULT_MAX_FRAMES == 512
MIN_FRAMES_FOR_BPM == 100
bpmComputeInterval_ == 25

\* a/b < c/d for b > 0 and d > 0, without forming the products
RECURSIVE FracLess(_, _, _, _)
FracLess(a, b, c, d) ==
    LET q1 == a \div b
        q2 == c \div d
        r1 == a - q1 * b
        r2 == c - q2 * d
    IN  IF q1 # q2 THEN q1 < q2
        ELSE IF r2 = 0 THEN FALSE
        ELSE IF r1 = 0 THEN TRUE
        ELSE FracLess(d, r2, b, r1)

\* computeAutocorrelationFFT, lag k, before the division by autocorr[0] + 1e-8
Autocorr(signal, k) ==
    LET len == Len(signal) - k
    IN  IF len <= 0 THEN 0 ELSE Sum([i \in 1..len |-> signal[i] * signal[i + k]])

\* the peak loop: for (i = from; i < to; i++) if (autocorr[i] > peakVal) ..,
\* by halves
RECURSIVE PeakFrom(_, _, _, _)
PeakFrom(autocorr, from, to, peakIdx) ==
    IF from >= to THEN peakIdx
    ELSE IF from + 1 = to
    THEN IF autocorr[from] > autocorr[peakIdx] THEN from ELSE peakIdx
    ELSE LET mid == (from + to) \div 2
             half == PeakFrom(autocorr, from, mid, peakIdx)
         IN  IF half >= 0 THEN PeakFrom(autocorr, mid, to, half) ELSE half

\* std::round(60 * FPS / (peakIdx + num/den)) for den > 0, |num/den| < 1/2:
\* the b with b - 1/2 <= 3000 / refined < b + 1/2
RoundBpm(peakIdx, num, den) ==
    LET lo == (60 * FPS) \div (peakIdx + 1)
        hi == (60 * FPS) \div (peakIdx - 1) + 1
        \* 3000 / refined < m/2  <=>  (6000 - m * peakIdx) / m < num / den
        Below(m) == FracLess(2 * 60 * FPS - m * peakIdx, m, num, den)
    IN  CHOOSE b \in lo..hi : ~Below(2 * b - 1) /\ Below(2 * b + 1)

\* a faulty variant of the octave correction: a rounded BPM above the range
\* is halved without looking at the half
OctaveCorrectAlways(bpm, applyOctaveCorrection) ==
    LET doubled == bpm * 2
    IN  IF applyOctaveCorrection /\ bpm > 0
        THEN IF bpm < DJ_MIN_BPM /\ doubled >= DJ_MIN_BPM /\ doubled <= DJ_MAX_BPM
             THEN doubled * BpmUnit
             ELSE IF bpm > DJ_MAX_BPM
             THEN bpm   \* bpm / 2 in BpmUnit
             ELSE bpm * BpmUnit
        ELSE bpm * BpmUnit

\* the octave correction of estimate, on a rounded BPM; result in BpmUnit
OctaveCorrect(bpm, applyOctaveCorrection) ==
    LET doubled == bpm * 2
    IN  IF applyOctaveCorrection /\ bpm > 0
        THEN IF bpm < DJ_MIN_BPM /\ doubled >= DJ_MIN_BPM /\ doubled <= DJ_MAX_BPM
             THEN doubled * BpmUnit
             ELSE IF bpm > DJ_MAX_BPM /\ bpm >= 2 * DJ_MIN_BPM /\ bpm <= 2 * DJ_MAX_BPM
             THEN bpm   \* bpm / 2 in BpmUnit
             ELSE bpm * BpmUnit
        ELSE bpm * BpmUnit

\* a faulty variant of estimate: inputs from half a second on are analysed
estimateHalfSecond(beatActivations, downbeatActivations, numFrames, applyOctaveCorrection) ==
    IF numFrames < FPS \div 2 THEN 0
    ELSE
    LET signal == [i \in 1..numFrames |-> beatActivations[i] + downbeatActivations[i]]
        minLag == (FPS * 60) \div MAX_BPM
        maxLag0 == (FPS * 60) \div MIN_BPM
        maxLag == IF maxLag0 >= numFrames THEN numFrames - 1 ELSE maxLag0
        autocorr == [k \in (minLag - 1)..(maxLag + 1) |->
                        IF k < numFrames THEN Autocorr(signal, k) ELSE 0]
        norm0 == Autocorr(signal, 0)
        peakIdx == PeakFrom(autocorr, minLag + 1, maxLag, minLag)
        y0 == autocorr[peakIdx - 1]
        y1 == autocorr[peakIdx]
        y2 == autocorr[peakIdx + 1]
        denom == y0 - 2 * y1 + y2
        refine == /\ peakIdx > 0 /\ peakIdx < numFrames - 1
                  /\ y1 > y0 /\ y1 > y2
                  /\ Abs(denom) > norm0 \div 100000000
        \* offset = 0.5 * (y0 - y2) / denom, with a positive denominator
        bpm == IF refine
               THEN IF denom > 0 THEN RoundBpm(peakIdx, y0 - y2, 2 * denom)
                    ELSE RoundBpm(peakIdx, y2 - y0, -2 * denom)
               ELSE RoundBpm(peakIdx, 0, 1)
    IN  IF minLag >= maxLag THEN 0 ELSE OctaveCorrect(bpm, applyOctaveCorrection)

\* AutocorrBpmEstimator::estimate
estimate(beatActivations, downbeatActivations, numFrames, applyOctaveCorrection) ==
    IF numFrames < FPS THEN 0
    ELSE
    LET signal == [i \in 1..numFrames |-> beatActivations[i] + downbeatActivations[i]]
        minLag == (FPS * 60) \div MAX_BPM
        maxLag0 == (FPS * 60) \div MIN_BPM
        maxLag == IF maxLag0 >= numFrames THEN numFrames - 1 ELSE maxLag0
        autocorr == [k \in (minLag - 1)..(maxLag + 1) |->
                        IF k < numFrames THEN Autocorr(signal, k) ELSE 0]
        norm0 == Autocorr(signal, 0)
        peakIdx == PeakFrom(autocorr, minLag + 1, maxLag, minLag)
        y0 == autocorr[peakIdx - 1]
        y1 == autocorr[peakIdx]
        y2 == autocorr[peakIdx + 1]
        denom == y0 - 2 * y1 + y2
        refine == /\ peakIdx > 0 /\ peakIdx < numFrames - 1
                  /\ y1 > y0 /\ y1 > y2
                  /\ Abs(denom) > norm0 \div 100000000
        \* offset = 0.5 * (y0 - y2) / denom, with a positive denominator
        bpm == IF refine
               THEN IF denom > 0 THEN RoundBpm(peakIdx, y0 - y2, 2 * denom)
                    ELSE RoundBpm(peakIdx, y2 - y0, -2 * denom)
               ELSE RoundBpm(peakIdx, 0, 1)
    IN  IF minLag >= maxLag THEN 0 ELSE OctaveCorrect(bpm, applyOctaveCorrection)

\* ActivationBuffer::ActivationBuffer
ActivationBufferInit(maxFrames) ==
    [maxFrames |-> maxFrames,
     head |-> 0,
     count |-> 0,
     cachedBpm |-> 0,
     framesSinceLastCompute |-> 0,
     beatActivations |-> [i \in 1..maxFrames |-> 0],
     downbeatActivations |-> [i \in 1..maxFrames |-> 0]]

\* a faulty variant of extractInOrder: the arrays are read from their start
extractFromStart(b) ==
    [beat |-> [i \in 1..b.count |-> b.beatActivations[i]],
     down |-> [i \in 1..b.count |-> b.downbeatActivations[i]]]

\* extractInOrder: [beat |-> .., down |-> ..], oldest first
extractInOrder(b) ==
    LET start == IF b.count < b.maxFrames THEN 0 ELSE b.head
        idx(i) == ((start + i) % b.maxFrames) + 1
    IN  [beat |-> [i \in 1..b.count |-> b.beatActivations[idx(i - 1)]],
         down |-> [i \in 1..b.count |-> b.downbeatActivations[idx(i - 1)]]]

\* a faulty variant of recomputeBpm: the estimate is cached as it is found,
\* without the octave correction
recomputeBpmUncorrected(b) ==
    LET acts == extractInOrder(b)
    IN  [b EXCEPT !.cachedBpm = estimate(acts.beat, acts.down, b.count, FALSE),
                  !.framesSinceLastCompute = 0]

\* ActivationBuffer::recomputeBpm
recomputeBpm(b) ==
    LET acts == extractInOrder(b)
    IN  [b EXCEPT !.cachedBpm = estimate(acts.beat, acts.down, b.count, TRUE),
                  !.framesSinceLastCompute = 0]

\* a faulty variant of push: the frames are counted towards the next
\* estimate only once there are enough of them
ActivationBuffer_pushLate(b, beatActivation, downbeatActivation) ==
    LET b1 == [b EXCEPT !.beatActivations[b.head + 1] = beatActivation,
                        !.downbeatActivations[b.head + 1] = downbeatActivation,
                        !.head = (b.head + 1) % b.maxFrames,
                        !.count = IF b.count < b.maxFrames THEN b.count + 1 ELSE b.count,
                        !.framesSinceLastCompute =
                            IF b.count + 1 >= MIN_FRAMES_FOR_BPM
                            THEN b.framesSinceLastCompute + 1 ELSE 0]
    IN  IF b1.count >= MIN_FRAMES_FOR_BPM
           /\ b1.framesSinceLastCompute >= bpmComputeInterval_
        THEN recomputeBpm(b1)
        ELSE b1

\* ActivationBuffer::push
ActivationBuffer_push(b, beatActivation, downbeatActivation) ==
    LET b1 == [b EXCEPT !.beatActivations[b.head + 1] = beatActivation,
                        !.downbeatActivations[b.head + 1] = downbeatActivation,
                        !.head = (b.head + 1) % b.maxFrames,
                        !.count = IF b.count < b.maxFrames THEN b.count + 1 ELSE b.count,
                        !.framesSinceLastCompute = b.framesSinceLastCompute + 1]
    IN  IF b1.count >= MIN_FRAMES_FOR_BPM
           /\ b1.framesSinceLastCompute >= bpmComputeInterval_
        THEN recomputeBpm(b1)
        ELSE b1

\* ActivationBuffer::clear
ActivationBuffer_clear(b) ==
    [b EXCEPT !.head = 0, !.count = 0, !.cachedBpm = 0, !.framesSinceLastCompute = 0]

\* a faulty variant of estimateBpm: the estimator's own minimum of frames
\* is the only one
ActivationBuffer_estimateEarly(b, applyOctaveCorrection) ==
    LET acts == extractInOrder(b)
        bpm == estimate(acts.beat, acts.down, b.count, applyOctaveCorrection)
    IN  [ret |-> bpm,
         b |-> [b EXCEPT !.cachedBpm = bpm, !.framesSinceLastCompute = 0]]

\* ActivationBuffer::estimateBpm: [ret |-> .., b |-> ..]
ActivationBuffer_estimateBpm(b, applyOctaveCorrection) ==
    IF b.count < MIN_FRAMES_FOR_BPM THEN [ret |-> 0, b |-> b]
    ELSE LET acts == extractInOrder(b)
             bpm == estimate(acts.beat, acts.down, b.count, applyOctaveCorrection)
         IN  [ret |-> bpm,
              b |-> [b EXCEPT !.cachedBpm = bpm, !.framesSinceLastCompute = 0]]

(***************************************************************************)
(* Engine (Engine.cpp, Engine.hpp).                                        *)
(***************************************************************************)
KEY_MIN_FRAMES == 100
KEY_INFERENCE_INTERVAL == 25
RESAMPLE_BUFFER_SIZE == 44100
RESAMPLE_SLACK == 64

VARIABLES
    melExtractor_,              \* StreamingMelExtractor::Impl
    beatnetModel_,              \* OnnxModel: isLoaded_, hidden_, cell_
    resampler_,                 \* Resampler::history_
    activationBuffer_,          \* ActivationBuffer
    cqtExtractor_,              \* StreamingCqtExtractor::Impl
    keyModel_,                  \* KeyModel: isLoaded_
    cqtBuffer_,                 \* the CQT matrix, one entry per frame
    cqtFrameCount_,
    cqtFramesSinceInference_,
    currentKey_,
    keyInferenceCount_,
    resampleBuffer_,            \* scratch array of processAudio
    call,                       \* what the last API call did and returned
    hist,                       \* history of the engine since creation
    n,                          \* how many calls of each kind were made
    replay,                     \* the two runs of the replay harness
    bench                       \* a component on its own, as the unit tests
                                \* build it, and the log of what it was fed

engineVars ==
    << melExtractor_, beatnetModel_, resampler_, activationBuffer_, cqtExtractor_,
       keyModel_, cqtBuffer_, cqtFrameCount_, cqtFramesSinceInference_, currentKey_,
       keyInferenceCount_, resampleBuffer_ >>
bpmVars == << melExtractor_, beatnetModel_, resampler_, activationBuffer_, resampleBuffer_ >>
keyVars ==
    << cqtExtractor_, keyModel_, cqtBuffer_, cqtFrameCount_, cqtFramesSinceInference_,
       currentKey_, keyInferenceCount_ >>
vars == << engineVars, call, hist, n, replay, bench >>

NoKey == [camelot |-> "", notation |-> "", confidence |-> 0, valid |-> FALSE]

isReady == OnnxModel_isReady(beatnetModel_)
isKeyReady == KeyModel_isReady(keyModel_)
getBpm == activationBuffer_.cachedBpm
getFrameCount == activationBuffer_.count
getKey == currentKey_
getKeyFrameCount == cqtFrameCount_

\* a faulty variant of the assignment of the result: the notation is left
\* as it was
StoreKeyPartial(key, output) ==
    [key EXCEPT !.camelot = output.camelot,
                !.confidence = output.confidence,
                !.valid = TRUE]

\* Engine.cpp:141-144, the four assignments to currentKey_
StoreKey(key, output) ==
    [key EXCEPT !.camelot = output.camelot,
                !.notation = output.notation,
                !.confidence = output.confidence,
                !.valid = TRUE]

\* a faulty variant of runKeyInference after the inference: the output is
\* stored whether or not the inference succeeded
InferredUnchecked(k, r) ==
    IF r.ret
    THEN [k EXCEPT !.invoked = TRUE, !.inferred = TRUE,
                   !.passed = k.cqtFrameCount,
                   !.output = r.output,
                   !.keyInferenceCount = k.keyInferenceCount + 1,
                   !.cqtFramesSinceInference = 0,
                   !.currentKey = StoreKey(k.currentKey, r.output)]
    ELSE [k EXCEPT !.invoked = TRUE, !.passed = k.cqtFrameCount,
                   !.currentKey = StoreKey(k.currentKey, r.output)]

\* a faulty variant of runKeyInference after the inference: the interval
\* starts again whether or not the inference succeeded
InferredCounted(k, r) ==
    IF r.ret
    THEN [k EXCEPT !.invoked = TRUE, !.inferred = TRUE,
                   !.passed = k.cqtFrameCount,
                   !.output = r.output,
                   !.keyInferenceCount = k.keyInferenceCount + 1,
                   !.cqtFramesSinceInference = 0,
                   !.currentKey = StoreKey(k.currentKey, r.output)]
    ELSE [k EXCEPT !.invoked = TRUE, !.passed = k.cqtFrameCount,
                   !.cqtFramesSinceInference = 0]

\* Engine.cpp:139-145, runKeyInference after the inference r
Inferred(k, r) ==
    IF r.ret
    THEN [k EXCEPT !.invoked = TRUE, !.inferred = TRUE,
                   !.passed = k.cqtFrameCount,
                   !.output = r.output,
                   !.keyInferenceCount = k.keyInferenceCount + 1,
                   !.cqtFramesSinceInference = 0,
                   !.currentKey = StoreKey(k.currentKey, r.output)]
    ELSE [k EXCEPT !.invoked = TRUE, !.passed = k.cqtFrameCount]

\* a faulty variant of runKeyInference: the adapter is given the latest
\* KEY_MIN_FRAMES frames of the matrix
runKeyInferenceRecent(k, runOk) ==
    IF ~KeyModel_isReady(k.keyModel) \/ k.cqtFrameCount < KEY_MIN_FRAMES
    THEN k
    ELSE Inferred(k, KeyModel_inferVariable(k.keyModel,
                                            SubSeq(k.cqtBuffer,
                                                   k.cqtFrameCount - KEY_MIN_FRAMES + 1,
                                                   k.cqtFrameCount),
                                            KEY_MIN_FRAMES, runOk))

\* Engine::runKeyInference on the key-side members k
runKeyInference(k, runOk) ==
    IF ~KeyModel_isReady(k.keyModel) \/ k.cqtFrameCount < KEY_MIN_FRAMES
    THEN k
    ELSE Inferred(k, KeyModel_inferVariable(k.keyModel, k.cqtBuffer, k.cqtFrameCount,
                                            runOk))

\* Engine.cpp:166-180, the accumulation loop over the produced CQT frames
RECURSIVE AppendCqt(_, _, _)
AppendCqt(k, cqtFrames, i) ==
    IF i > Len(cqtFrames) THEN k
    ELSE LET at == k.cqtFrameCount + 1
             grown == IF Len(k.cqtBuffer) < at
                      THEN k.cqtBuffer \o [j \in 1..(at - Len(k.cqtBuffer)) |-> << >>]
                      ELSE k.cqtBuffer
         IN  AppendCqt([k EXCEPT !.cqtBuffer = [grown EXCEPT ![at] = cqtFrames[i]],
                                 !.cqtFrameCount = k.cqtFrameCount + 1,
                                 !.cqtFramesSinceInference = k.cqtFramesSinceInference + 1],
                       cqtFrames, i + 1)

\* a faulty variant of the scheduling condition: more than the minimum of
\* frames is asked for
shouldRunInferenceLate(k) ==
    LET hasMinFrames == k.cqtFrameCount > KEY_MIN_FRAMES
    IN  hasMinFrames /\ (k.keyInferenceCount = 0
                         \/ k.cqtFramesSinceInference >= KEY_INFERENCE_INTERVAL)

\* a faulty variant of the scheduling condition: once the minimum of frames
\* is there, every call asks for an inference
shouldRunInferenceEager(k) ==
    LET hasMinFrames == k.cqtFrameCount >= KEY_MIN_FRAMES
    IN  hasMinFrames /\ (k.keyInferenceCount = 0 \/ k.cqtFramesSinceInference >= 0)

\* Engine.cpp:183-185
shouldRunInference(k) ==
    LET hasMinFrames == k.cqtFrameCount >= KEY_MIN_FRAMES
    IN  hasMinFrames /\ (k.keyInferenceCount = 0
                         \/ k.cqtFramesSinceInference >= KEY_INFERENCE_INTERVAL)

\* Engine.cpp:182-189, the scheduling of the inference after the frames
\* of the call were appended
Scheduled(k, runOk) ==
    IF shouldRunInference(k) THEN runKeyInference([k EXCEPT !.due = TRUE], runOk) ELSE k

\* Engine.cpp:166-180, the frames of the CQT push p appended
Accumulated(k, p) ==
    AppendCqt([k EXCEPT !.cqtExtractor = p.st, !.appended = Len(p.frames)], p.frames, 1)

\* a faulty variant of the key pipeline of processAudio: it waits for the
\* beat model as well
KeyPipelineNeedsBeat(k, samples, runOk) ==
    IF ~KeyModel_isReady(k.keyModel) \/ ~isReady THEN k
    ELSE Scheduled(Accumulated(k, StreamingCqt_push(k.cqtExtractor, samples,
                                                    MAX_CQT_FRAMES)),
                   runOk)

\* Engine.cpp:157-190, the key pipeline of processAudio
KeyPipeline(k, samples, runOk) ==
    IF ~KeyModel_isReady(k.keyModel) THEN k
    ELSE Scheduled(Accumulated(k, StreamingCqt_push(k.cqtExtractor, samples,
                                                    MAX_CQT_FRAMES)),
                   runOk)

\* a faulty variant of the loop body: a frame whose inference fails is
\* pushed and reported with zero activations
BeatStepZero(features, i, b, hasOut, maxResults, failSet) ==
    LET r == OnnxModel_infer(b.model, features[i], i \notin failSet)
    IN  [model |-> r.m,
         ring |-> ActivationBuffer_push(b.ring, r.output[1], r.output[2]),
         totalProduced |-> b.totalProduced + 1,
         pushed |-> Append(b.pushed, r.output),
         out |-> IF hasOut /\ Len(b.out) < maxResults
                 THEN Append(b.out, r.output)
                 ELSE b.out]

\* Engine.cpp:231-254, the body of the loop over the mel frames of one call,
\* for frame i.  b: [model, ring, out, totalProduced, pushed]; failSet: the
\* frames of this call for which the runtime fails
BeatStep(features, i, b, hasOut, maxResults, failSet) ==
    LET r == OnnxModel_infer(b.model, features[i], i \notin failSet)
    IN  IF ~r.ret THEN b
        ELSE [model |-> r.m,
              ring |-> ActivationBuffer_push(b.ring, r.output[1], r.output[2]),
              totalProduced |-> b.totalProduced + 1,
              pushed |-> Append(b.pushed, r.output),
              out |-> IF hasOut /\ Len(b.out) < maxResults
                      THEN Append(b.out, r.output)
                      ELSE b.out]

\* the loop for the frames from..to, by halves
RECURSIVE BeatLoop(_, _, _, _, _, _, _)
BeatLoop(features, from, to, b, hasOut, maxResults, failSet) ==
    IF from > to THEN b
    ELSE IF from = to THEN BeatStep(features, from, b, hasOut, maxResults, failSet)
    ELSE LET mid == (from + to) \div 2
             half == BeatLoop(features, from, mid, b, hasOut, maxResults, failSet)
         IN  IF half.totalProduced >= 0
             THEN BeatLoop(features, mid + 1, to, half, hasOut, maxResults, failSet)
             ELSE half

\* a faulty variant of the return of processAudioForBpm: the count of the
\* frames pushed whether or not the caller gave a result array
BpmReturnTotal(p, b, hasOut) ==
    [ret |-> b.totalProduced,
     mel |-> p.st, model |-> b.model, ring |-> b.ring,
     out |-> b.out, pushed |-> b.pushed, numFrames |-> Len(p.frames)]

\* Engine.cpp:254-256, what processAudioForBpm leaves and returns after the
\* loop.  p: the result of the mel push, b: the result of the loop
BpmReturn(p, b, hasOut) ==
    [ret |-> IF hasOut THEN Len(b.out) ELSE b.totalProduced,
     mel |-> p.st, model |-> b.model, ring |-> b.ring,
     out |-> b.out, pushed |-> b.pushed, numFrames |-> Len(p.frames)]

\* Engine.cpp:221-256, processAudioForBpm after the mel push p
BpmFrames(p, model, ring, hasOut, maxResults, failSet) ==
    IF Len(p.frames) = 0
    THEN [ret |-> 0, mel |-> p.st, model |-> model, ring |-> ring,
          out |-> << >>, pushed |-> << >>, numFrames |-> 0]
    ELSE BpmReturn(p,
                   BeatLoop(p.frames, 1, Len(p.frames),
                            [model |-> model, ring |-> ring, totalProduced |-> 0,
                             pushed |-> << >>, out |-> << >>],
                            hasOut, maxResults, failSet),
                   hasOut)

\* Engine::processAudioForBpm on the BPM-side members:
\* [ret, mel, model, ring, out, pushed, numFrames]
processAudioForBpm(mel, model, ring, samples, hasOut, maxResults, failSet) ==
    IF ~OnnxModel_isReady(model)
    THEN [ret |-> 0, mel |-> mel, model |-> model, ring |-> ring,
          out |-> << >>, pushed |-> << >>, numFrames |-> 0]
    ELSE BpmFrames(StreamingMel_push(mel, samples, MAX_FRAMES), model, ring,
                   hasOut, maxResults, failSet)

\* Engine::warmUp on the beat model: five dummy inferences, the failAt-th of
\* which fails (0: none), then resetState
RECURSIVE WarmLoop(_, _, _)
WarmLoop(m, i, failAt) ==
    IF i > 5 THEN [ret |-> TRUE, m |-> OnnxModel_resetState(m)]
    ELSE LET r == OnnxModel_infer(m, [logMel |-> 0, diff |-> 0], i # failAt)
         IN  IF ~r.ret THEN [ret |-> FALSE, m |-> m] ELSE WarmLoop(r.m, i + 1, failAt)

NoCall ==
    [op |-> "none", ret |-> 0, hasOut |-> FALSE, maxResults |-> 0,
     numSamples |-> 0, pushed |-> << >>, out |-> << >>, numFrames |-> 0,
     appended |-> 0, invoked |-> FALSE, inferred |-> FALSE, passed |-> 0,
     due |-> FALSE]

\* Engine::Engine
Init ==
    /\ melExtractor_ = StreamingMelInit
    /\ beatnetModel_ = OnnxModelInit
    /\ resampler_ = RConst(0, historySize_)
    /\ activationBuffer_ = ActivationBufferInit(DEFAULT_MAX_FRAMES)
    /\ cqtExtractor_ = StreamingCqtInit
    /\ keyModel_ = KeyModelInit
    /\ cqtBuffer_ = << >>
    /\ cqtFrameCount_ = 0
    /\ cqtFramesSinceInference_ = 0
    /\ currentKey_ = NoKey
    /\ keyInferenceCount_ = 0
    /\ resampleBuffer_ = RConst(0, RESAMPLE_BUFFER_SIZE)
    /\ call = NoCall
    /\ hist = [keyOk |-> 0, keyOkSinceLoad |-> 0, framesSinceOk |-> 0,
               lastIndex |-> -1, lastConfidence |-> 0,
               beatLoaded |-> FALSE, keyLoaded |-> FALSE]
    /\ n = [calls |-> 0, resets |-> 0, loads |-> 0, faults |-> 0, warmups |-> 0]
    /\ replay = [phase |-> 0, script |-> << >>, first |-> << >>, second |-> << >>]
    /\ bench = [kind |-> "none"]

\* Engine::reset
Reset ==
    /\ melExtractor_' = StreamingMel_reset(melExtractor_)
    /\ beatnetModel_' = OnnxModel_resetState(beatnetModel_)
    /\ activationBuffer_' = ActivationBuffer_clear(activationBuffer_)
    /\ resampler_' = Resampler_reset(resampler_)
    /\ cqtExtractor_' = StreamingCqt_reset(cqtExtractor_)
    /\ cqtBuffer_' = << >>
    /\ cqtFrameCount_' = 0
    /\ cqtFramesSinceInference_' = 0
    /\ keyInferenceCount_' = 0
    /\ currentKey_' = NoKey
    /\ call' = [NoCall EXCEPT !.op = "reset"]
    /\ hist' = [hist EXCEPT !.keyOk = 0, !.keyOkSinceLoad = 0, !.framesSinceOk = 0,
                            !.lastIndex = -1, !.lastConfidence = 0]
    /\ UNCHANGED << keyModel_, resampleBuffer_ >>

\* Engine::loadModel; sessionOk: the file is a model the runtime accepts
LoadModel(sessionOk) ==
    LET r == OnnxModel_load(beatnetModel_, sessionOk)
    IN  /\ beatnetModel_' = r.m
        /\ call' = [NoCall EXCEPT !.op = "loadModel", !.ret = IF r.ret THEN 1 ELSE 0]
        /\ hist' = [hist EXCEPT !.beatLoaded = hist.beatLoaded \/ r.ret]
        /\ UNCHANGED << melExtractor_, resampler_, activationBuffer_, resampleBuffer_,
                        keyVars >>

\* Engine::loadKeyModel
LoadKeyModel(sessionOk) ==
    LET r == KeyModel_load(keyModel_, sessionOk)
    IN  /\ keyModel_' = r.m
        /\ call' = [NoCall EXCEPT !.op = "loadKeyModel", !.ret = IF r.ret THEN 1 ELSE 0]
        /\ hist' = [hist EXCEPT !.keyLoaded = hist.keyLoaded \/ r.ret,
                                !.keyOkSinceLoad = IF r.ret THEN 0 ELSE @]
        /\ UNCHANGED << bpmVars, cqtExtractor_, cqtBuffer_, cqtFrameCount_,
                        cqtFramesSinceInference_, currentKey_, keyInferenceCount_ >>

\* Engine::warmUp
WarmUp(failAt) ==
    /\ IF ~isReady
       THEN /\ call' = [NoCall EXCEPT !.op = "warmUp"]
            /\ UNCHANGED beatnetModel_
       ELSE LET r == WarmLoop(beatnetModel_, 1, failAt)
            IN  /\ beatnetModel_' = r.m
                /\ call' = [NoCall EXCEPT !.op = "warmUp", !.ret = IF r.ret THEN 1 ELSE 0]
    /\ UNCHANGED << melExtractor_, resampler_, activationBuffer_, resampleBuffer_,
                    keyVars, hist >>

\* Engine::warmUpKey: one inference on a zero tensor, result discarded
WarmUpKey(runOk) ==
    /\ call' = [NoCall EXCEPT !.op = "warmUpKey",
                              !.ret = IF isKeyReady /\ runOk THEN 1 ELSE 0]
    /\ UNCHANGED << engineVars, hist >>

\* the key-side members as one record, with what the call did
KeySide ==
    [keyModel |-> keyModel_, cqtExtractor |-> cqtExtractor_, cqtBuffer |-> cqtBuffer_,
     cqtFrameCount |-> cqtFrameCount_,
     cqtFramesSinceInference |-> cqtFramesSinceInference_,
     keyInferenceCount |-> keyInferenceCount_, currentKey |-> currentKey_,
     appended |-> 0, invoked |-> FALSE, inferred |-> FALSE, passed |-> 0,
     due |-> FALSE, output |-> NoKeyOutput]

\* the BPM-side members as one record, with what the call did
BpmSide ==
    [ret |-> 0, mel |-> melExtractor_, model |-> beatnetModel_,
     ring |-> activationBuffer_, out |-> << >>, pushed |-> << >>, numFrames |-> 0,
     history |-> resampler_, scratch |-> resampleBuffer_]

\* the history of successful key inferences after a call that left k
HistAfter(k) ==
    IF k.inferred
    THEN [hist EXCEPT !.keyOk = @ + 1, !.keyOkSinceLoad = @ + 1, !.framesSinceOk = 0,
                      !.lastIndex = k.output.keyIndex,
                      !.lastConfidence = k.output.confidence]
    ELSE [hist EXCEPT !.framesSinceOk = @ + k.appended]

\* Engine.cpp:200-209 after the resampling rs: the scratch array and the
\* members that processAudioForBpm leaves
Resampled(rs, scratch, hasOut, maxResults, failSet) ==
    [history |-> rs.history, scratch |-> RStore(scratch, 0, rs.out)]
    @@ processAudioForBpm(melExtractor_, beatnetModel_, activationBuffer_,
                          rs.out, hasOut, maxResults, failSet)

\* a faulty variant of the BPM pipeline of processAudio: the block is
\* resampled and handed on whether or not the beat model is loaded
BpmPipelineUnguarded(samples, maxOutput, hasOut, maxResults, failSet) ==
    Resampled(processStreaming(resampler_, samples, maxOutput),
              resampleBuffer_, hasOut, maxResults, failSet)

\* Engine.cpp:195-209, the BPM pipeline of processAudio
BpmPipeline(samples, maxOutput, hasOut, maxResults, failSet) ==
    IF ~isReady THEN BpmSide
    ELSE Resampled(processStreaming(resampler_, samples, maxOutput),
                   IF maxOutput > RLen(resampleBuffer_)
                   THEN RCat(resampleBuffer_, RConst(0, maxOutput - RLen(resampleBuffer_)))
                   ELSE resampleBuffer_,
                   hasOut, maxResults, failSet)

\* the members and the record of the call after a call that left k and b
Leave(op, numSamples, k, b, hasOut, maxResults) ==
    /\ cqtExtractor_' = k.cqtExtractor
    /\ cqtBuffer_' = k.cqtBuffer
    /\ cqtFrameCount_' = k.cqtFrameCount
    /\ cqtFramesSinceInference_' = k.cqtFramesSinceInference
    /\ keyInferenceCount_' = k.keyInferenceCount
    /\ currentKey_' = k.currentKey
    /\ keyModel_' = k.keyModel
    /\ hist' = HistAfter(k)
    /\ resampleBuffer_' = b.scratch
    /\ resampler_' = b.history
    /\ melExtractor_' = b.mel
    /\ beatnetModel_' = b.model
    /\ activationBuffer_' = b.ring
    /\ call' = [op |-> op, ret |-> b.ret, hasOut |-> hasOut, maxResults |-> maxResults,
                numSamples |-> numSamples,
                pushed |-> b.pushed, out |-> b.out, numFrames |-> b.numFrames,
                appended |-> k.appended, invoked |-> k.invoked,
                inferred |-> k.inferred, passed |-> k.passed, due |-> k.due]

\* Engine::processAudio.  samples: the block; hasOut, maxResults: the result
\* buffer; failSet: the mel frames for which the beat runtime fails;
\* keyRunOk: the key runtime succeeds if invoked
ProcessAudio(samples, hasOut, maxResults, failSet, keyRunOk) ==
    Leave("processAudio", RLen(samples),
          KeyPipeline(KeySide, samples, keyRunOk),
          BpmPipeline(samples, getOutputSize(RLen(samples)) + RESAMPLE_SLACK,
                      hasOut, maxResults, failSet),
          hasOut, maxResults)

\* a faulty variant of the API call: the samples are handed to the key
\* pipeline as well
ProcessAudioForBpmKeyed(samples, hasOut, maxResults, failSet) ==
    Leave("processAudioForBpm", RLen(samples),
          KeyPipeline(KeySide, samples, TRUE),
          [history |-> resampler_, scratch |-> resampleBuffer_]
          @@ processAudioForBpm(melExtractor_, beatnetModel_, activationBuffer_,
                                samples, hasOut, maxResults, failSet),
          hasOut, maxResults)

\* Engine::processAudioForBpm as an API call, on samples at the pipeline rate
ProcessAudioForBpm(samples, hasOut, maxResults, failSet) ==
    Leave("processAudioForBpm", RLen(samples),
          KeySide,
          [history |-> resampler_, scratch |-> resampleBuffer_]
          @@ processAudioForBpm(melExtractor_, beatnetModel_, activationBuffer_,
                                samples, hasOut, maxResults, failSet),
          hasOut, maxResults)

(***************************************************************************)
(* The engine under every interleaving of its API, a few short calls deep. *)
(***************************************************************************)
MaxCalls == 2
MaxResets == 1
MaxLoads == 2
MaxFaults == 1
MaxWarmups == 1
ShortBlock == 1000
MidBlock == 4410
ShortContent == 1
MidContent == 2
SmallOut == 2
FailedFrame == 2
WarmFail == 3

\* the blocks of audio of a call, at the input rate
Blocks == {RConst(ShortContent, ShortBlock), RConst(MidContent, MidBlock)}
\* the same audio at the pipeline rate
BpmBlocks == {RConst(MidContent, MidBlock \div ratio_)}
\* the result buffer of a call: none, or one of SmallOut entries
Outs == {[hasOut |-> FALSE, maxResults |-> 0],
         [hasOut |-> TRUE, maxResults |-> SmallOut]}
\* the frames of a call at which the beat runtime fails
FailSets == IF n.faults < MaxFaults /\ isReady THEN {{}, {FailedFrame}} ELSE {{}}

\* a runtime failure happened in the call that just ended
BeatFault(failSet) == \E i \in failSet : i <= call'.numFrames
KeyFault == call'.invoked /\ ~call'.inferred
Count(cond) == IF cond THEN 1 ELSE 0

CallAudio ==
    \E samples \in Blocks, o \in Outs, failSet \in FailSets :
        /\ n.calls < MaxCalls
        /\ ProcessAudio(samples, o.hasOut, o.maxResults, failSet, TRUE)
        /\ (failSet = {} \/ BeatFault(failSet))
        /\ n' = [n EXCEPT !.calls = @ + 1, !.faults = @ + Count(BeatFault(failSet))]

CallAudioForBpm ==
    \E samples \in BpmBlocks, o \in Outs, failSet \in FailSets :
        /\ n.calls < MaxCalls
        /\ ProcessAudioForBpm(samples, o.hasOut, o.maxResults, failSet)
        /\ (failSet = {} \/ BeatFault(failSet))
        /\ n' = [n EXCEPT !.calls = @ + 1, !.faults = @ + Count(BeatFault(failSet))]

CallReset == n.resets < MaxResets /\ Reset /\ n' = [n EXCEPT !.resets = @ + 1]
CallLoadModel ==
    \E ok \in BOOLEAN : n.loads < MaxLoads /\ LoadModel(ok) /\ n' = [n EXCEPT !.loads = @ + 1]
CallLoadKeyModel ==
    \E ok \in BOOLEAN :
        n.loads < MaxLoads /\ LoadKeyModel(ok) /\ n' = [n EXCEPT !.loads = @ + 1]
CallWarmUp ==
    \E failAt \in {0, WarmFail} :
        n.warmups < MaxWarmups /\ WarmUp(failAt) /\ n' = [n EXCEPT !.warmups = @ + 1]
CallWarmUpKey ==
    \E runOk \in BOOLEAN :
        n.warmups < MaxWarmups /\ WarmUpKey(runOk) /\ n' = [n EXCEPT !.warmups = @ + 1]

Next ==
    /\ \/ CallAudio
       \/ CallAudioForBpm
       \/ CallReset
       \/ CallLoadModel
       \/ CallLoadKeyModel
       \/ CallWarmUp
       \/ CallWarmUpKey
    /\ UNCHANGED << replay, bench >>

Spec == Init /\ [][Next]_vars

(***************************************************************************)
(* A listening session: seconds of audio per call, long enough for the    *)
(* key inferences to come due.                                             *)
(***************************************************************************)
MaxStreamCalls == 7
OneSecond == 44100
FiveSeconds == 220500
LongContent == 1

StreamBlocks == {RConst(LongContent, FiveSeconds), RConst(MidContent, OneSecond)}
\* whether the key runtime succeeds if invoked
KeyRuns ==
    IF n.faults < MaxFaults /\ isKeyReady
       /\ cqtFrameCount_ + MAX_CQT_FRAMES >= KEY_MIN_FRAMES
    THEN BOOLEAN ELSE {TRUE}

StreamAudio ==
    \E samples \in StreamBlocks, keyRunOk \in KeyRuns :
        /\ n.calls < MaxStreamCalls
        /\ ProcessAudio(samples, FALSE, 0, {}, keyRunOk)
        /\ (keyRunOk \/ KeyFault)
        /\ n' = [n EXCEPT !.calls = @ + 1, !.faults = @ + Count(KeyFault)]

StreamNext ==
    /\ \/ StreamAudio
       \/ CallReset
       \/ CallLoadKeyModel
    /\ UNCHANGED << replay, bench >>

SpecStream == Init /\ [][StreamNext]_vars

\* the block of the processAudio call of this step
StreamSamplesOfCall == CHOOSE b \in StreamBlocks : RLen(b) = call'.numSamples

\* the CQT matrix of this step's processAudio call at its inference: the
\* frames held before the call, then the frames the extractor emits for the
\* block, in the order emitted
MatrixOfCall ==
    IF isKeyReady
    THEN SubSeq(cqtBuffer_, 1, cqtFrameCount_)
            \o StreamingCqt_push(cqtExtractor_, StreamSamplesOfCall, MAX_CQT_FRAMES).frames
    ELSE SubSeq(cqtBuffer_, 1, cqtFrameCount_)

\* the key-side members after this step are those of a call whose matrix
\* is w: the matrix and its frame count; if the inference succeeded, a zero
\* frames-since-inference counter, one more inference counted and the result
\* the adapter gives for the whole of w; if not, the count of inferences
\* and the result as before
KeyLeavesAs(w) ==
    [matrix |-> cqtBuffer_', frames |-> cqtFrameCount_',
     passed |-> call'.passed,
     since |-> IF call'.inferred THEN cqtFramesSinceInference_' ELSE 0,
     count |-> keyInferenceCount_', key |-> currentKey_']
    = [matrix |-> w, frames |-> Len(w),
       passed |-> IF call'.invoked THEN Len(w) ELSE 0,
       since |-> 0,
       count |-> keyInferenceCount_ + Count(call'.inferred),
       key |-> IF call'.inferred
               THEN StoreKey(currentKey_,
                             KeyModel_inferVariable(keyModel_, w, Len(w), TRUE).output)
               ELSE currentKey_]

\* C29: a key inference of a processAudio call is run over the whole CQT
\* matrix: the frames appended since the creation or the last reset of the
\* engine, in the order appended, one value per bin each, as many as the key
\* frame count says; a successful inference zeroes the frames-since-inference
\* counter and replaces the key result by the adapter's result for that
\* matrix; and a call runs at most one inference.  A reset empties the
\* matrix.
C29_WholeMatrixInferred ==
    /\ [][call'.op = "processAudio" => KeyLeavesAs(MatrixOfCall)]_vars
    /\ [][call'.op = "reset" => cqtBuffer_' = << >> /\ cqtFrameCount_' = 0]_vars
    /\ [](/\ Len(cqtBuffer_) = getKeyFrameCount
          /\ \A i \in 1..Len(cqtBuffer_) : Len(cqtBuffer_[i]) = Len(filterLengths))

\* C29: the second inference since the reset has succeeded, over more
\* frames than the first
C29_SecondOverLongerMatrix ==
    /\ call.op = "processAudio" /\ call.inferred
    /\ keyInferenceCount_ = 2 /\ n.resets > 0
    /\ call.passed = getKeyFrameCount /\ call.passed >= KEY_MIN_FRAMES + KEY_INFERENCE_INTERVAL
    /\ cqtFramesSinceInference_ = 0 /\ currentKey_.valid

(***************************************************************************)
(* The same input twice: a sequence of calls is recorded with what the     *)
(* caller can observe after each, the engine is reset, and the sequence is *)
(* fed again.  The runtimes are the deterministic BeatRun and KeyRun and   *)
(* do not fail; the models are loaded before the first call.               *)
(***************************************************************************)
MaxScript == 5
\* five seconds of one content or six of another
ReplayBlocks ==
    {RConst(LongContent, FiveSeconds), RConst(MidContent, FiveSeconds + OneSecond)}

\* what the caller can observe after a call
Observed ==
    [ret |-> call.ret, out |-> call.out, bpm |-> getBpm, frameCount |-> getFrameCount,
     key |-> getKey, keyFrameCount |-> getKeyFrameCount]

ReplayLoadModel ==
    /\ replay.phase = 0 /\ replay.script = << >> /\ ~isReady
    /\ LoadModel(TRUE)
    /\ UNCHANGED << n, replay >>

ReplayLoadKeyModel ==
    /\ replay.phase = 0 /\ replay.script = << >> /\ ~isKeyReady
    /\ LoadKeyModel(TRUE)
    /\ UNCHANGED << n, replay >>

Record ==
    \E samples \in ReplayBlocks :
        /\ replay.phase = 0 /\ Len(replay.script) < MaxScript
        /\ isReady \/ isKeyReady
        /\ ProcessAudio(samples, TRUE, MAX_FRAMES, {}, TRUE)
        /\ replay' = [replay EXCEPT !.script = Append(@, samples),
                                    !.first = Append(@, Observed')]
        /\ UNCHANGED n

ReplayReset ==
    /\ replay.phase = 0 /\ replay.script # << >>
    /\ Reset
    /\ replay' = [replay EXCEPT !.phase = 1]
    /\ UNCHANGED n

Replay ==
    /\ replay.phase = 1 /\ Len(replay.second) < Len(replay.script)
    /\ ProcessAudio(replay.script[Len(replay.second) + 1], TRUE, MAX_FRAMES, {}, TRUE)
    /\ replay' = [replay EXCEPT !.second = Append(@, Observed')]
    /\ UNCHANGED n

ReplayNext ==
    /\ \/ ReplayLoadModel
       \/ ReplayLoadKeyModel
       \/ Record
       \/ ReplayReset
       \/ Replay
    /\ UNCHANGED bench

SpecReplay == Init /\ [][ReplayNext]_vars

(***************************************************************************)
(* The return value of the processing calls.                               *)
(***************************************************************************)
\* the last call was a processing call made with the beat model loaded
BpmCallDone == call.op \in {"processAudio", "processAudioForBpm"} /\ isReady

\* C1, as the code has it: a processing call with the beat model loaded
\* returns the number of frames it pushed onto the ring when the caller gave
\* no result array, and the number of results it wrote when the caller gave
\* one: the frames pushed, capped at maxResults; the results written are
\* the first of the frames pushed, in order.
C1_ReturnCountsWrittenResults ==
    BpmCallDone =>
        /\ call.ret = IF call.hasOut
                      THEN Min(Len(call.pushed), call.maxResults)
                      ELSE Len(call.pushed)
        /\ call.hasOut => call.out = SubSeq(call.pushed, 1, call.ret)
        /\ ~call.hasOut => call.out = << >>

\* C1: a call whose result array is smaller than the frames it pushed
C1_SmallArrayCall ==
    /\ BpmCallDone
    /\ call.hasOut
    /\ Len(call.pushed) > call.maxResults
    /\ call.ret = call.maxResults

\* C1 as stated: whether or not a result array is given, the return value
\* of a processing call is the number of frames it pushed onto the ring.
C1_ReturnCountsPushedFrames == BpmCallDone => call.ret = Len(call.pushed)

(***************************************************************************)
(* processAudio by the models that are loaded.                             *)
(***************************************************************************)
\* C2: a processAudio call made while neither model is loaded returns 0 and
\* changes no member of the engine.
C2_NoModelNoEffect ==
    [][(~isReady /\ ~isKeyReady /\ call'.op = "processAudio")
       => (call'.ret = 0 /\ UNCHANGED engineVars)]_vars

\* C2: such a call was made on an engine that had processed audio before
\* its beat model was lost
C2_CallWithoutModels ==
    /\ call.op = "processAudio" /\ call.numSamples > 0
    /\ ~isReady /\ ~isKeyReady
    /\ getFrameCount > 0

\* the frames the extractor completed during a step
CqtFramesCompleted == cqtExtractor_'.frameCount - cqtExtractor_.frameCount

\* C3: a processAudio call made with the key model loaded and the beat
\* model not loaded returns 0 and leaves every BPM-side member as it was,
\* while the key side runs in full: the extractor takes the whole block,
\* the frames it completes (at most MAX_CQT_FRAMES of them) are appended
\* behind the frames accumulated, and the inference is invoked when the
\* counters make it due.
C3_KeyOnlyCall ==
    [][(isKeyReady /\ ~isReady /\ call'.op = "processAudio")
       => /\ call'.ret = 0
          /\ UNCHANGED bpmVars
          /\ cqtExtractor_'.samplesReceived
                = cqtExtractor_.samplesReceived + call'.numSamples
          /\ call'.appended = Min(MAX_CQT_FRAMES, CqtFramesCompleted)
          /\ cqtFrameCount_' = cqtFrameCount_ + call'.appended
          /\ Len(cqtBuffer_') >= cqtFrameCount_'
          /\ \A i \in 1..cqtFrameCount_ : cqtBuffer_'[i] = cqtBuffer_[i]
          /\ (cqtFrameCount_' >= KEY_MIN_FRAMES
              /\ (keyInferenceCount_ = 0
                  \/ cqtFramesSinceInference_ + call'.appended
                       >= KEY_INFERENCE_INTERVAL))
             => call'.invoked]_vars

\* C3: a key-only call that appended frames and ran an inference that gave
\* the key
C3_KeyOnlyInference ==
    /\ call.op = "processAudio" /\ isKeyReady /\ ~isReady
    /\ call.ret = 0 /\ call.appended > 0
    /\ call.inferred /\ currentKey_.valid

(***************************************************************************)
(* The scheduling of the key inference.                                    *)
(***************************************************************************)
\* the frames appended since the last inference that succeeded, or since
\* the creation or the last reset, once the call of a step has appended its
\* own
FramesSinceOk == hist.framesSinceOk + call'.appended

\* C4, as the code has it: a processAudio call invokes the key inference if
\* and only if, once its frames are appended, the key model is loaded, at
\* least KEY_MIN_FRAMES frames are accumulated, and either no inference has
\* succeeded since the creation or the last reset of the engine or at least
\* KEY_INFERENCE_INTERVAL frames were appended since the last inference
\* that succeeded; the inference takes all the frames accumulated, never
\* fewer than KEY_MIN_FRAMES.
C4_InferenceWhenDue ==
    [][call'.op = "processAudio"
       => /\ call'.invoked
               <=> /\ isKeyReady
                   /\ cqtFrameCount_' >= KEY_MIN_FRAMES
                   /\ hist.keyOk = 0 \/ FramesSinceOk >= KEY_INFERENCE_INTERVAL
          /\ call'.invoked
               => call'.passed = cqtFrameCount_' /\ call'.passed >= KEY_MIN_FRAMES]_vars

\* C4: a second inference came due by the interval and succeeded
C4_SecondInference ==
    /\ call.op = "processAudio" /\ call.invoked /\ call.inferred
    /\ keyInferenceCount_ = 2 /\ hist.keyOk = 2

\* C4 as stated: the inference runs if and only if the key model is loaded,
\* at least KEY_MIN_FRAMES frames are accumulated, and either no inference
\* was done since the load or the reset or at least KEY_INFERENCE_INTERVAL
\* frames were appended since the last inference.
C4_InferenceSinceLoad ==
    [][call'.op = "processAudio"
       => (call'.invoked
             <=> /\ isKeyReady
                 /\ cqtFrameCount_' >= KEY_MIN_FRAMES
                 /\ hist.keyOkSinceLoad = 0
                    \/ FramesSinceOk >= KEY_INFERENCE_INTERVAL)]_vars

\* C38: while no key inference has failed, after every processAudio call
\* that leaves the key model loaded and at least 100 frames in the matrix
\* the key result is valid and fewer than 25 frames were appended since the
\* inference it comes from; and an inference that succeeds after another
\* one has at least 25 frames appended between the two.
C38_KeyResultFresh ==
    /\ []((call.op = "processAudio" /\ n.faults = 0 /\ isKeyReady
           /\ getKeyFrameCount >= 100)
            => /\ currentKey_.valid
               /\ hist.keyOk >= 1
               /\ hist.framesSinceOk < 25
               /\ cqtFramesSinceInference_ = hist.framesSinceOk)
    /\ [][(call'.op = "processAudio" /\ n'.faults = 0 /\ call'.inferred
           /\ hist.keyOk >= 1)
            => FramesSinceOk >= 25]_vars

\* C38: the second inference of a stream without failures, 25 frames or
\* more after the first
C38_SecondInferenceInTime ==
    /\ call.op = "processAudio" /\ call.inferred /\ n.faults = 0
    /\ hist.keyOk = 2 /\ call.appended > 0
    /\ getKeyFrameCount >= 125
    /\ currentKey_.valid /\ cqtFramesSinceInference_ = 0

(***************************************************************************)
(* The key result.                                                         *)
(***************************************************************************)
\* C5: the key result is valid only if a key inference has succeeded since
\* the creation or the last reset of the engine; a key result that is not
\* valid is the empty one: both labels empty and confidence 0.
C5_ValidOnlyAfterSuccess ==
    /\ currentKey_.valid => hist.keyOk >= 1
    /\ ~currentKey_.valid
         => currentKey_ = [camelot |-> "", notation |-> "", confidence |-> 0,
                           valid |-> FALSE]

\* C5: a valid key result is held after an inference that failed
C5_ValidKeyKept ==
    /\ currentKey_.valid /\ hist.keyOk >= 1
    /\ call.op = "processAudio" /\ call.invoked /\ ~call.inferred

\* C6: the two labels of a valid key result are the entries of the camelot
\* and the notation tables at one index in 0..NUM_CLASSES-1, the class the
\* last successful inference predicted, and the confidence is the
\* probability that inference gave that class.
C6_LabelsOfOneClass ==
    currentKey_.valid
        => /\ hist.lastIndex \in 0..(NUM_CLASSES - 1)
           /\ currentKey_.camelot = CAMELOT_KEYS[hist.lastIndex + 1]
           /\ currentKey_.notation = NOTATION_KEYS[hist.lastIndex + 1]
           /\ currentKey_.confidence = hist.lastConfidence

\* C6: the key result after a second successful inference
C6_KeyAfterSecondInference ==
    /\ currentKey_.valid /\ call.inferred /\ keyInferenceCount_ = 2
    /\ \E i \in 1..NUM_CLASSES : currentKey_.camelot = CAMELOT_KEYS[i]

(***************************************************************************)
(* reset.                                                                  *)
(***************************************************************************)
\* what the caller observed after the last call recorded
LastRecorded == replay.first[Len(replay.first)]

\* C7: after reset the BPM frame count, the key frame count and the BPM are
\* 0, the key result is the empty one, the accumulated CQT frames are
\* dropped, both scheduling counters are 0, the hidden and the cell state
\* of the beat model are zero, the history of the resampler is zero, and
\* both extractors are in the padded state they were created in.
C7_ResetClears ==
    call.op = "reset"
        => /\ getFrameCount = 0
           /\ getKeyFrameCount = 0
           /\ getBpm = 0
           /\ getKey = [camelot |-> "", notation |-> "", confidence |-> 0,
                        valid |-> FALSE]
           /\ cqtBuffer_ = << >>
           /\ cqtFramesSinceInference_ = 0
           /\ keyInferenceCount_ = 0
           /\ beatnetModel_.hidden = 0 /\ beatnetModel_.cell = 0
           /\ resampler_ = RConst(0, historySize_)
           /\ melExtractor_ = StreamingMelInit
           /\ cqtExtractor_ = StreamingCqtInit

\* C7: the reset of an engine that had a BPM and a valid key
C7_ResetAfterResults ==
    /\ call.op = "reset"
    /\ isReady /\ isKeyReady
    /\ LastRecorded.bpm > 0
    /\ LastRecorded.key.valid
    /\ LastRecorded.frameCount = DEFAULT_MAX_FRAMES \div 2 + MAX_FRAMES

\* C8: with the same models loaded and a deterministic runtime, a sequence
\* of calls fed again after reset gives after each call what it gave after
\* that call on the new engine: the return value, the results written, the
\* BPM, the frame counts and the key result.
C8_ReplayAfterReset ==
    replay.phase = 1
        => /\ Len(replay.second) <= Len(replay.first)
           /\ replay.second = SubSeq(replay.first, 1, Len(replay.second))

\* C8: a sequence of both blocks was fed again in full, with both models
\* loaded, and ended with a BPM and a valid key
C8_FullReplay ==
    /\ replay.phase = 1
    /\ isReady /\ isKeyReady
    /\ Len(replay.second) = Len(replay.script)
    /\ \E i, j \in 1..Len(replay.script) : replay.script[i] # replay.script[j]
    /\ replay.second[Len(replay.second)].bpm > 0
    /\ replay.second[Len(replay.second)].key.valid
    /\ replay.second[1].ret > 0

(***************************************************************************)
(* Loading.                                                                *)
(***************************************************************************)
\* the last call was a load that returned false
LoadFailed == call.op \in {"loadModel", "loadKeyModel"} /\ call.ret = 0

\* C9 as stated: a load that fails returns false and changes no member of
\* the engine; the ready flag of that model in particular is what it was
\* before the call, also when the model was loaded before.
C9_FailedLoadNoEffect ==
    [][LoadFailed' => UNCHANGED engineVars]_vars

\* C9: a load that failed on a model that had been loaded left it unloaded
C9_FailedReloadUnloads ==
    \/ call.op = "loadModel" /\ call.ret = 0 /\ hist.beatLoaded /\ ~isReady
    \/ call.op = "loadKeyModel" /\ call.ret = 0 /\ hist.keyLoaded /\ ~isKeyReady

\* C10: both ready flags are false on a new engine; a ready flag is true
\* right after a load of its model that returned true, and true only if
\* some load of that model returned true before; reset changes neither.
C10_ReadyFlags ==
    /\ ~isReady /\ ~isKeyReady
    /\ [](/\ (call.op = "loadModel" /\ call.ret = 1) => isReady
          /\ (call.op = "loadKeyModel" /\ call.ret = 1) => isKeyReady
          /\ isReady => hist.beatLoaded
          /\ isKeyReady => hist.keyLoaded)
    /\ [][call'.op = "reset" => UNCHANGED << beatnetModel_.isLoaded, keyModel_ >>]_vars

\* C10: a reset of an engine with one model loaded and the other not
C10_ResetKeepsFlags ==
    /\ call.op = "reset"
    /\ isReady /\ ~isKeyReady
    /\ n.calls > 0

(***************************************************************************)
(* The activation ring on its own (test_autocorr_bpm.cpp): a ring of the   *)
(* default capacity fed a click track, and a ring of a few entries fed     *)
(* any pairs, with the log of the pairs pushed since the last clear.       *)
(***************************************************************************)
SmallRing == 4
MaxSmallPushes == 10
MaxRingPushes == 540
MaxPushesAfterClear == 130
MaxEstimates == 2
EarlyEstimate == 60
MidEstimate == 110
LateEstimate == 520
ClearAt == 130
ClickPeriod == 25
BarPeriod == 100

\* the activations of frame i of a click track
Click(i) ==
    [beat |-> IF i % ClickPeriod = 0 THEN 90 ELSE 10,
     down |-> IF i % BarPeriod = 0 THEN 80 ELSE 5]

\* the pairs a push may store
PushMenu ==
    IF bench.ring.maxFrames = SmallRing
    THEN {[beat |-> 90, down |-> 5], [beat |-> 10, down |-> 80]}
    ELSE {Click(bench.total + 1)}

\* how many pushes are made since the last clear
PushLimit ==
    IF bench.ring.maxFrames = SmallRing THEN MaxSmallPushes
    ELSE IF bench.clears > 0 THEN MaxPushesAfterClear
    ELSE MaxRingPushes

\* ActivationBuffer buffer(maxFrames)
RingNew ==
    \E maxFrames \in {SmallRing, DEFAULT_MAX_FRAMES} :
        /\ bench.kind = "none"
        /\ bench' = [kind |-> "ring", ring |-> ActivationBufferInit(maxFrames),
                     op |-> "new", log |-> << >>, pushes |-> 0, total |-> 0,
                     restart |-> -1, estimates |-> 0, clears |-> 0, ret |-> 0]
        /\ UNCHANGED << engineVars, call, hist, n, replay >>

\* buffer.push(beat, downbeat)
RingPush ==
    \E pair \in IF bench.kind = "ring" THEN PushMenu ELSE {} :
        /\ bench.pushes < PushLimit
        /\ bench' = [bench EXCEPT
                        !.ring = ActivationBuffer_push(@, pair.beat, pair.down),
                        !.op = "push", !.log = Append(@, pair),
                        !.pushes = @ + 1, !.total = @ + 1]
        /\ UNCHANGED << engineVars, call, hist, n, replay >>

\* buffer.estimateBpm(applyOctaveCorrection)
RingEstimate ==
    \E applyOctaveCorrection \in BOOLEAN :
        /\ bench.kind = "ring" /\ bench.ring.maxFrames # SmallRing
        /\ bench.estimates < MaxEstimates /\ bench.op = "push"
        /\ bench.pushes \in {EarlyEstimate, MidEstimate, LateEstimate}
        /\ LET r == ActivationBuffer_estimateBpm(bench.ring, applyOctaveCorrection)
           IN  bench' = [bench EXCEPT
                           !.ring = r.b, !.op = "estimate", !.ret = r.ret,
                           !.estimates = @ + 1,
                           !.restart = IF bench.pushes >= MIN_FRAMES_FOR_BPM
                                       THEN bench.pushes ELSE @]
        /\ UNCHANGED << engineVars, call, hist, n, replay >>

\* buffer.clear()
RingClear ==
    /\ bench.kind = "ring" /\ bench.clears = 0
    /\ bench.pushes = IF bench.ring.maxFrames = SmallRing THEN SmallRing + 1 ELSE ClearAt
    /\ bench' = [bench EXCEPT !.ring = ActivationBuffer_clear(@), !.op = "clear",
                              !.log = << >>, !.pushes = 0, !.restart = -1,
                              !.clears = @ + 1]
    /\ UNCHANGED << engineVars, call, hist, n, replay >>

RingNext == RingNew \/ RingPush \/ RingEstimate \/ RingClear

SpecRing == Init /\ [][RingNext]_vars

\* C11: the cached BPM of a ring is 0 in every state in which fewer than
\* MIN_FRAMES_FOR_BPM pairs were pushed since its creation or its last
\* clear, whatever estimates were asked for in between; such an estimate
\* returns 0.
C11_NoBpmBeforeMinFrames ==
    (bench.kind = "ring" /\ bench.pushes < MIN_FRAMES_FOR_BPM)
        => /\ bench.ring.cachedBpm = 0
           /\ bench.op = "estimate" => bench.ret = 0

\* C11: an estimate asked of a ring that holds enough frames for the
\* estimator and fewer than MIN_FRAMES_FOR_BPM
C11_EarlyEstimate ==
    /\ bench.kind = "ring" /\ bench.op = "estimate"
    /\ bench.pushes >= FPS /\ bench.pushes < MIN_FRAMES_FOR_BPM
    /\ bench.ring.cachedBpm = 0

\* the last m pairs of the log
LastPushed(m) == SubSeq(bench.log, Len(bench.log) - m + 1, Len(bench.log))

\* C16: after n pushes since its creation or its last clear a ring of
\* capacity K holds min(n, K) entries, and the sequences handed to the
\* estimator are the last min(n, K) pairs pushed, oldest first.
C16_RingOrder ==
    bench.kind = "ring"
        => LET m == Min(bench.pushes, bench.ring.maxFrames)
               acts == extractInOrder(bench.ring)
               last == LastPushed(m)
           IN  /\ bench.ring.count = m
               /\ acts.beat = [i \in 1..m |-> last[i].beat]
               /\ acts.down = [i \in 1..m |-> last[i].down]

\* C16: a small ring overwritten more than twice, holding different pairs
C16_WrappedTwice ==
    /\ bench.kind = "ring" /\ bench.ring.maxFrames = SmallRing
    /\ bench.pushes > 2 * SmallRing
    /\ bench.clears = 1
    /\ \E i, j \in 1..SmallRing :
           bench.ring.beatActivations[i] # bench.ring.beatActivations[j]

\* the last push made the ring compute its BPM
Recomputed == bench.op = "push" /\ bench.ring.framesSinceLastCompute = 0

\* C17: a ring of the default capacity computes its BPM at the pushes
\* MIN_FRAMES_FOR_BPM, MIN_FRAMES_FOR_BPM + 25, + 50, ... since its creation
\* or its last clear and at no other push, also once it is full; after an
\* estimate asked for at p >= MIN_FRAMES_FOR_BPM pushes it computes at the
\* pushes p + 25, p + 50, ... instead.
C17_RecomputeCadence ==
    (bench.kind = "ring" /\ bench.ring.maxFrames = DEFAULT_MAX_FRAMES
     /\ bench.op = "push")
        => (Recomputed
              <=> IF bench.restart < 0
                  THEN /\ bench.pushes >= MIN_FRAMES_FOR_BPM
                       /\ (bench.pushes - MIN_FRAMES_FOR_BPM) % bpmComputeInterval_ = 0
                  ELSE (bench.pushes - bench.restart) % bpmComputeInterval_ = 0)

\* C17: the BPM was computed by a push into the full ring, on the cadence
\* counted from MIN_FRAMES_FOR_BPM
C17_RecomputeWhenFull ==
    /\ bench.kind = "ring" /\ Recomputed /\ bench.restart < 0
    /\ bench.pushes > DEFAULT_MAX_FRAMES
    /\ bench.ring.cachedBpm > 0

(***************************************************************************)
(* A long session: the beat model loaded, the key model loaded or not,     *)
(* ten seconds and more of audio in calls of five or six seconds, the key  *)
(* runtime failing now and then, and the count of the frames pushed onto   *)
(* the ring since the creation or the last reset.                          *)
(***************************************************************************)
MaxSessionCalls == 9
MaxSessionFaults == 2
FreeCalls == 2
ResetAfter == 3

\* the first calls are of either block, the later ones of the first
SessionBlocks ==
    IF bench.calls < FreeCalls THEN ReplayBlocks ELSE {RConst(LongContent, FiveSeconds)}

\* whether the key runtime succeeds if invoked
SessionKeyRuns ==
    IF bench.kind = "session" /\ bench.faults < MaxSessionFaults /\ isKeyReady
       /\ cqtFrameCount_ + MAX_CQT_FRAMES >= KEY_MIN_FRAMES
    THEN BOOLEAN ELSE {TRUE}

SessionLoadModel ==
    /\ bench.kind = "none"
    /\ LoadModel(TRUE)
    /\ bench' = [kind |-> "session", pushedTotal |-> 0, calls |-> 0, faults |-> 0,
                 resets |-> 0]
    /\ UNCHANGED << n, replay >>

SessionLoadKeyModel ==
    /\ bench.kind = "session" /\ bench.calls = 0 /\ ~isKeyReady
    /\ LoadKeyModel(TRUE)
    /\ UNCHANGED << n, replay, bench >>

SessionAudio ==
    \E samples \in IF bench.kind = "session" THEN SessionBlocks ELSE {},
       keyRunOk \in SessionKeyRuns :
        /\ bench.calls < MaxSessionCalls
        /\ ProcessAudio(samples, TRUE, MAX_FRAMES, {}, keyRunOk)
        /\ (keyRunOk \/ KeyFault)
        /\ bench' = [bench EXCEPT !.pushedTotal = @ + Len(call'.pushed),
                                  !.calls = @ + 1,
                                  !.faults = @ + Count(KeyFault)]
        /\ UNCHANGED << n, replay >>

SessionReset ==
    /\ bench.kind = "session" /\ bench.resets = 0 /\ bench.calls = ResetAfter
    /\ Reset
    /\ bench' = [bench EXCEPT !.pushedTotal = 0, !.resets = 1]
    /\ UNCHANGED << n, replay >>

SessionNext == SessionLoadModel \/ SessionLoadKeyModel \/ SessionAudio \/ SessionReset

SpecSession == Init /\ [][SessionNext]_vars

\* C12 as stated: the BPM frame count is the number of activations pushed
\* onto the ring since the creation or the last reset of the engine,
\* however long the audio processed.
C12_FrameCountIsTotalPushed ==
    bench.kind = "session" => getFrameCount = bench.pushedTotal

\* C12: more activations were pushed than the ring holds, and the frame
\* count is the capacity of the ring
C12_FrameCountAtCapacity ==
    /\ bench.kind = "session" /\ bench.resets = 0
    /\ bench.pushedTotal > DEFAULT_MAX_FRAMES
    /\ getFrameCount = DEFAULT_MAX_FRAMES

\* the last call invoked the key inference and the inference failed
KeyInferenceFailed == call.op = "processAudio" /\ call.invoked /\ ~call.inferred

\* C19: a processAudio call whose key inference fails leaves the key
\* result and the count of inferences as they were, and the key frame
\* count, the CQT matrix and the frames-since-inference counter as the
\* appending of its frames left them; its BPM side is done in full: every
\* mel frame of the call is inferred, pushed and returned; and the next
\* processAudio call invokes the inference again.
C19_FailedKeyInference ==
    /\ [][KeyInferenceFailed'
           => /\ currentKey_' = currentKey_
              /\ keyInferenceCount_' = keyInferenceCount_
              /\ cqtFrameCount_' = cqtFrameCount_ + call'.appended
              /\ cqtFramesSinceInference_'
                    = cqtFramesSinceInference_ + call'.appended
              /\ Len(cqtBuffer_') = cqtFrameCount_'
              /\ \A i \in 1..cqtFrameCount_ : cqtBuffer_'[i] = cqtBuffer_[i]
              /\ isReady
                   => /\ call'.numFrames > 0
                      /\ Len(call'.pushed) = call'.numFrames
                      /\ call'.ret = Len(call'.pushed)
                      /\ call'.out = call'.pushed
                      /\ getFrameCount'
                            = Min(DEFAULT_MAX_FRAMES, getFrameCount + call'.numFrames)
                      /\ melExtractor_' # melExtractor_]_vars
    /\ [][(KeyInferenceFailed /\ call'.op = "processAudio" /\ isKeyReady)
           => call'.invoked]_vars

\* C19: an inference failed in a call that returned BPM results, on an
\* engine that held a key from an earlier inference, after another failure
C19_FailureKeepsKey ==
    /\ KeyInferenceFailed /\ isReady
    /\ currentKey_.valid /\ keyInferenceCount_ = 1
    /\ call.ret > 0
    /\ bench.kind = "session" /\ bench.faults = 2


(***************************************************************************)
(* The streaming resampler on its own: a cold resampler is fed a sample    *)
(* sequence block by block; beside it the blocks are concatenated, and the *)
(* outputs of the calls are concatenated.                                  *)
(***************************************************************************)
MaxBlocks == 3
TinyBlock == 1
EvenBlock == 2
FilterBlock == 64
OddBlock == 129
LowLevel == 1
HighLevel == 2

\* the same samples with neighbouring runs of one value joined, by halves
RECURSIVE RNorm(_)
RNorm(r) ==
    IF Len(r) <= 1 THEN r
    ELSE LET half == Len(r) \div 2
         IN  RCat(RNorm(SubSeq(r, 1, half)), RNorm(SubSeq(r, half + 1, Len(r))))

\* the blocks handed to processStreaming: constant blocks of two levels
ResamplerBlocks ==
    {RConst(v, len) : v \in {LowLevel, HighLevel},
                      len \in {0, TinyBlock, EvenBlock, FilterBlock, OddBlock}}

\* Resampler resampler; resampler.reset()
ResamplerNew ==
    /\ bench.kind = "none"
    /\ bench' = [kind |-> "resampler", history |-> Resampler_reset(<< >>),
                 input |-> << >>, output |-> << >>, lens |-> << >>, ret |-> 0]
    /\ UNCHANGED << engineVars, call, hist, n, replay >>

\* produced = resampler.processStreaming(block, size, chunkOutput, size)
ResamplerBlock ==
    \E block \in ResamplerBlocks :
        /\ bench.kind = "resampler" /\ Len(bench.lens) < MaxBlocks
        /\ LET rs == processStreaming(bench.history, block, RLen(block))
           IN  bench' = [bench EXCEPT
                           !.history = rs.history,
                           !.input = RCat(@, block),
                           !.output = RNorm(RCat(@, rs.out)),
                           !.lens = Append(@, RLen(block)),
                           !.ret = RLen(rs.out)]
        /\ UNCHANGED << engineVars, call, hist, n, replay >>

ResamplerNext == ResamplerNew \/ ResamplerBlock

SpecResampler == Init /\ [][ResamplerNext]_vars

\* one streaming call on the concatenation of the blocks, from the cold start
WholeResampled ==
    RNorm(processStreaming(Resampler_reset(<< >>), bench.input, RLen(bench.input)).out)

\* C13: however the input is split into blocks, the concatenated outputs of
\* the streaming calls equal, in length and sample for sample, the output of
\* one streaming call on the concatenated input from the same cold start.
C13_ChunkingInvariance ==
    bench.kind = "resampler" => bench.output = WholeResampled

\* C13: a block of one sample and an even block have produced as many
\* samples as the single call, but other samples: the second call filters
\* at the odd input positions
C13_OddBlockShiftsPhase ==
    /\ bench.kind = "resampler"
    /\ bench.lens = << TinyBlock, FilterBlock >>
    /\ RLen(bench.output) = RLen(WholeResampled)
    /\ bench.output # WholeResampled


(***************************************************************************)
(* The streaming mel extractor on its own: a new extractor is fed a sample *)
(* sequence block by block, the output array never full; beside it the     *)
(* blocks are concatenated and the frames of the calls collected.          *)
(***************************************************************************)
MaxMelBlocks == 3
MaxMelResets == 1
MelOddBlock == 1000
MelLongBlock == 2000
\* an output array that every frame of the blocks fits in
MelCapacity == (MaxMelBlocks * MelLongBlock) \div HOP_LENGTH + 2

\* the blocks handed to push: constant blocks of two levels
MelBlocks ==
    {RConst(v, len) : v \in {LowLevel, HighLevel},
                      len \in {0, TinyBlock, HOP_LENGTH, WIN_LENGTH - MEL_PADDING,
                               MelOddBlock, MelLongBlock}}

\* StreamingMelExtractor extractor
MelNew ==
    /\ bench.kind = "none"
    /\ bench' = [kind |-> "mel", st |-> StreamingMelInit, input |-> << >>,
                 frames |-> << >>, lens |-> << >>, ret |-> 0, resets |-> 0]
    /\ UNCHANGED << engineVars, call, hist, n, replay >>

\* extractor.reset(): the input and the frames are collected anew
MelReset ==
    /\ bench.kind = "mel" /\ bench.resets < MaxMelResets /\ bench.lens # << >>
    /\ bench' = [bench EXCEPT !.st = StreamingMel_reset(bench.st),
                              !.input = << >>, !.frames = << >>,
                              !.ret = 0, !.resets = @ + 1]
    /\ UNCHANGED << engineVars, call, hist, n, replay >>

\* frames = extractor.push(block, n, features + total * 272, capacity - total)
MelBlock ==
    \E block \in MelBlocks :
        /\ bench.kind = "mel" /\ Len(bench.lens) < MaxMelBlocks
        /\ LET r == StreamingMel_push(bench.st, block, MelCapacity - Len(bench.frames))
           IN  bench' = [bench EXCEPT
                           !.st = r.st,
                           !.input = RCat(@, block),
                           !.frames = @ \o r.frames,
                           !.lens = Append(@, RLen(block)),
                           !.ret = Len(r.frames)]
        /\ UNCHANGED << engineVars, call, hist, n, replay >>

MelNext == MelNew \/ MelBlock \/ MelReset

SpecMel == Init /\ [][MelNext]_vars

\* a new extractor that is pushed the concatenation of the blocks in one call
WholeMel == StreamingMel_push(StreamingMelInit, bench.input, MelCapacity)

\* C14: however the input is split into blocks, the streaming mel extractor
\* has emitted the frames of the single push of the whole input, as many and
\* with the same features, and is left with the same window buffer, write
\* position and distance to the next frame as after the single push.
C14_MelChunkingInvariance ==
    bench.kind = "mel" =>
        /\ Len(bench.frames) < MelCapacity
        /\ bench.frames = WholeMel.frames
        /\ bench.st = WholeMel.st

\* C14: three blocks that end off the frame boundaries have given frames of
\* different content
C14_UnalignedBlocks ==
    /\ bench.kind = "mel"
    /\ bench.lens = << TinyBlock, MelOddBlock, MelLongBlock >>
    /\ Len(bench.frames) = (RLen(bench.input) - (WIN_LENGTH - MEL_PADDING)) \div HOP_LENGTH + 1
    /\ Len(bench.frames) >= 5
    /\ \E t \in 2..Len(bench.frames) : bench.frames[t].logMel # bench.frames[t - 1].logMel

\* the input since the creation or the last reset of the extractor, after
\* the zeros the window buffer starts with
PaddedInput == RCat(RConst(0, MEL_PADDING), bench.input)

MaxCqtBlocks == 3
MaxCqtResets == 1
CqtOddBlock == 20001
CqtLongBlock == 30000
CqtRoom == 4
\* an output array that every frame of the blocks fits in
CqtCapacity == (MaxCqtBlocks * CqtLongBlock) \div CQT_HOP_LENGTH + 2

\* the blocks handed to push: constant blocks of two levels
CqtBlocks ==
    {RConst(v, len) : v \in {LowLevel, HighLevel},
                      len \in {0, TinyBlock, CQT_HOP_LENGTH, MAX_FILTER_LENGTH \div 2,
                               CqtOddBlock, CqtLongBlock}}

\* StreamingCqtExtractor extractor
CqtNew ==
    /\ bench.kind = "none"
    /\ bench' = [kind |-> "cqt", st |-> StreamingCqtInit, input |-> << >>,
                 emitted |-> << >>, lens |-> << >>, op |-> "new",
                 ret |-> 0, maxFrames |-> 0, available |-> 0, resets |-> 0]
    /\ UNCHANGED << engineVars, call, hist, n, replay >>

\* extractor.reset(): the input and the frames are collected anew
CqtReset ==
    /\ bench.kind = "cqt" /\ bench.resets < MaxCqtResets /\ bench.lens # << >>
    /\ bench' = [bench EXCEPT !.st = StreamingCqt_reset(bench.st),
                              !.input = << >>, !.emitted = << >>,
                              !.op = "reset", !.ret = 0, !.maxFrames = 0,
                              !.available = 0, !.resets = @ + 1]
    /\ UNCHANGED << engineVars, call, hist, n, replay >>

\* ret = extractor.push(block, n, cqtFrames, maxFrames)
CqtBlock ==
    \E block \in CqtBlocks, maxFrames \in {0, 1, CqtRoom} :
        /\ bench.kind = "cqt" /\ Len(bench.lens) < MaxCqtBlocks
        /\ LET r == StreamingCqt_push(bench.st, block, maxFrames)
           IN  bench' = [bench EXCEPT
                           !.st = r.st,
                           !.input = RCat(@, block),
                           !.emitted = @ \o [k \in 1..Len(r.frames) |->
                                               [index |-> bench.st.frameCount + k - 1,
                                                frame |-> r.frames[k]]],
                           !.lens = Append(@, RLen(block)),
                           !.op = "push",
                           !.ret = Len(r.frames),
                           !.maxFrames = maxFrames,
                           !.available = r.st.frameCount - bench.st.frameCount]
        /\ UNCHANGED << engineVars, call, hist, n, replay >>

CqtNext == CqtNew \/ CqtBlock \/ CqtReset

SpecCqt == Init /\ [][CqtNext]_vars

\* the frames of the whole input, none left out
WholeCqt == StreamingCqt_push(StreamingCqtInit, bench.input, CqtCapacity).frames

\* the frames whose last needed sample is among the first received samples
FramesAvailable(received) ==
    IF received < MAX_FILTER_LENGTH \div 2 THEN 0
    ELSE (received - MAX_FILTER_LENGTH \div 2) \div CQT_HOP_LENGTH + 1

\* C15: the frame count is a function of the number of samples received,
\* whatever the sizes of the output arrays were; a push returns the smaller
\* of the frames that became available in it and maxFrames; the frames
\* written over the calls have strictly increasing indices, and each is the
\* frame of that index of the whole input.
C15_CqtFrameCount ==
    bench.kind = "cqt" =>
        /\ bench.st.samplesReceived = RLen(bench.input)
        /\ bench.st.frameCount = FramesAvailable(bench.st.samplesReceived)
        /\ bench.op = "push" => bench.ret = Min(bench.available, bench.maxFrames)
        /\ \A k \in 1..Len(bench.emitted) :
              /\ k > 1 => bench.emitted[k].index > bench.emitted[k - 1].index
              /\ bench.emitted[k].index < Len(WholeCqt)
              /\ bench.emitted[k].frame = WholeCqt[bench.emitted[k].index + 1]

\* C15: a call whose output array was too small for the frames that became
\* available is followed by a call that wrote a later frame
C15_FramesLeftOut ==
    /\ bench.kind = "cqt"
    /\ bench.lens = << CqtLongBlock, CqtLongBlock, CqtOddBlock >>
    /\ bench.st.frameCount > Len(bench.emitted)
    /\ Len(bench.emitted) >= 2
    /\ bench.emitted[2].index > bench.emitted[1].index + 1
    /\ bench.ret = 1 /\ bench.available > 1
    /\ bench.emitted[2].frame # bench.emitted[1].frame

\* the input since the creation or the last reset of the extractor, after
\* the zeros the buffer starts with
PaddedCqtInput == RCat(RConst(0, CQT_PADDING), bench.input)

\* the frames n >= 0 with n * 8820 + L/2 <= received
FramesDue(received) ==
    {f \in 0..(received \div CQT_HOP_LENGTH) :
        f * CQT_HOP_LENGTH + MAX_FILTER_LENGTH \div 2 <= received}

\* C31: after S samples since its creation or its last reset the streaming
\* CQT extractor counts as many frames as there are n >= 0 with
\* n * 8820 + L/2 <= S, each push counting those that came due in it, and
\* frame n is computed from the L samples x[n * 8820 - L/2 .. n * 8820 + L/2)
\* of the input, x[i] = 0 for i < 0, as they were received.
C31_CqtFrameSchedule ==
    /\ [](bench.kind = "cqt" =>
            /\ bench.st.frameCount = Cardinality(FramesDue(RLen(bench.input)))
            /\ \A k \in 1..Len(bench.emitted) :
                  bench.emitted[k].frame
                     = Cqt_processFrame(RSub(PaddedCqtInput,
                                             bench.emitted[k].index * CQT_HOP_LENGTH,
                                             MAX_FILTER_LENGTH),
                                        MAX_FILTER_LENGTH))
    /\ [][(bench.kind = "cqt" /\ bench'.op = "push") =>
            bench'.st.frameCount - bench.st.frameCount
               = Cardinality(FramesDue(RLen(bench'.input))
                                \ FramesDue(RLen(bench.input)))]_vars

\* C31: after a reset and blocks of two levels, the fourth frame was written,
\* from samples of both blocks, the first of which the buffer no longer holds
C31_FrameAfterWrap ==
    /\ bench.kind = "cqt" /\ bench.resets = 1
    /\ bench.lens = << CqtLongBlock, CqtOddBlock, CqtLongBlock >>
    /\ bench.input = RCat(RConst(LowLevel, CqtOddBlock), RConst(HighLevel, CqtLongBlock))
    /\ bench.st.frameCount = 5
    /\ \E k \in 1..Len(bench.emitted) :
          /\ bench.emitted[k].index = 3
          /\ bench.emitted[k].frame[1] > LowLevel * filterLengths[1]
          /\ bench.emitted[k].frame[1] < HighLevel * filterLengths[1]


\* the step is a call of warmUp
WarmUpCalled == n'.warmups = n.warmups + 1 /\ call'.op = "warmUp"

\* C18: warmUp on an engine whose beat model is not ready returns false and
\* leaves the model as it was; whatever warmUp returns, a recurrent state
\* that was all zero before the call is all zero after it, and the ring,
\* the frame count and the cached BPM are as before.
C18_WarmUpKeepsCleanState ==
    [][WarmUpCalled =>
          /\ ~isReady => call'.ret = 0 /\ beatnetModel_' = beatnetModel_
          /\ (beatnetModel_.hidden = 0 /\ beatnetModel_.cell = 0)
                => (beatnetModel_'.hidden = 0 /\ beatnetModel_'.cell = 0)
          /\ activationBuffer_' = activationBuffer_]_vars

\* C18: warmUp has returned false on a loaded model that had inferred
\* nothing before, and the recurrent state is that of its dummy inferences
C18_FailedWarmUpLeavesState ==
    /\ call.op = "warmUp" /\ call.ret = 0
    /\ isReady /\ n.calls = 0 /\ n.loads = 1
    /\ beatnetModel_.hidden # 0 \/ beatnetModel_.cell # 0


\* the step is a call in which the beat inference of frame FailedFrame failed
BeatInferenceFailed ==
    /\ n'.faults = n.faults + 1
    /\ call'.op \in {"processAudio", "processAudioForBpm"}

\* the mel frames of the processAudioForBpm call that the step makes
FramesOfCall ==
    StreamingMel_push(melExtractor_, RConst(MidContent, call'.numSamples),
                      MAX_FRAMES).frames

\* what the loop of the same call leaves when the frames but the failed one
\* are all that the extractor gave, and every inference succeeds
WithoutFailedFrame(frames) ==
    LET kept == [j \in 1..Len(frames) - 1 |->
                    frames[IF j < FailedFrame THEN j ELSE j + 1]]
    IN  BeatLoop(kept, 1, Len(kept),
                 [model |-> beatnetModel_, ring |-> activationBuffer_,
                  totalProduced |-> 0, pushed |-> << >>, out |-> << >>],
                 call'.hasOut, call'.maxResults, {})

\* the step leaves what the loop b left
LeavesAs(b) ==
    /\ call'.pushed = b.pushed
    /\ call'.out = b.out
    /\ activationBuffer_' = b.ring
    /\ beatnetModel_' = b.model

\* C20: in a call in which the beat inference of one mel frame fails, every
\* other frame of the call is pushed and that frame is not: the ring
\* has grown by one entry less than the frames extracted, the result array
\* holds the first of the pushed frames only, the return value counts no
\* failed frame; and the ring, the model state, the results and the return
\* value are those of the same call working in order on the other frames alone.
C20_FailedFrameSkipped ==
    [][BeatInferenceFailed =>
          /\ Len(call'.pushed) = call'.numFrames - 1
          /\ activationBuffer_'.count = activationBuffer_.count + Len(call'.pushed)
          /\ call'.out = SubSeq(call'.pushed, 1, Len(call'.out))
          /\ call'.ret = IF call'.hasOut
                         THEN Min(call'.maxResults, Len(call'.pushed))
                         ELSE Len(call'.pushed)
          /\ call'.op = "processAudioForBpm" =>
                /\ call'.numFrames = Len(FramesOfCall)
                /\ LeavesAs(WithoutFailedFrame(FramesOfCall))]_vars

\* C20: a call without result array in which the second of four frames
\* failed has returned three
C20_ThreeOfFourPushed ==
    /\ call.op = "processAudioForBpm" /\ ~call.hasOut
    /\ call.numFrames = 4 /\ Len(call.pushed) = 3 /\ call.ret = 3
    /\ n.faults = 1
    /\ call.pushed[2] # call.pushed[3]


(***************************************************************************)
(* The tail of the beat adapter on its own: the three raw values that the  *)
(* runtime returned are any of a few levels, in hundredths.                *)
(***************************************************************************)
RawLevels == {-50, 0, 30, 70, 100, 200}

\* the tail of OnnxModel::infer on the raw output outputData
AdapterInfer ==
    \E o1 \in RawLevels, o2 \in RawLevels, o3 \in RawLevels :
        /\ bench.kind \in {"none", "adapter"}
        /\ bench' = [kind |-> "adapter", outputData |-> << o1, o2, o3 >>,
                     softmaxed |-> Abs(o1 + o2 + o3 - 100) > 1,
                     beatActivation |-> Probs(<< o1, o2, o3 >>)[1],
                     downbeatActivation |-> Probs(<< o1, o2, o3 >>)[2]]
        /\ UNCHANGED << engineVars, call, hist, n, replay >>

SpecAdapter == Init /\ [][AdapterInfer]_vars

\* C21: whatever the three raw values are, and whether they are taken as
\* probabilities or soft-maxed, both activations lie in [0, 1].
C21_ActivationsInUnitRange ==
    bench.kind = "adapter" =>
        /\ bench.beatActivation >= 0 /\ bench.beatActivation <= 100
        /\ bench.downbeatActivation >= 0 /\ bench.downbeatActivation <= 100

\* C21: a raw output that sums to 1 was taken as probabilities and has given
\* a beat activation of 2 and a downbeat activation below 0
C21_LogitsTakenAsProbabilities ==
    /\ bench.kind = "adapter" /\ ~bench.softmaxed
    /\ bench.outputData = << 200, -50, -50 >>
    /\ bench.beatActivation = 200 /\ bench.downbeatActivation = -50


(***************************************************************************)
(* The tempo estimator on its own: estimate on click patterns of several   *)
(* lengths and periods, and its octave correction on every rounded BPM up  *)
(* to MaxRawBpm.                                                           *)
(***************************************************************************)
MaxRawBpm == 400
ShortestInput == 10
HalfSecondInput == 25
LongInput == 128
FastPeriod == 17
DancePeriod == 25
SlowPeriod == 45

InputLengths == {0, ShortestInput, HalfSecondInput, FPS - 1, FPS, FPS + 1, LongInput}
\* the frames between two clicks; 1: every frame alike
ClickPeriods == {1, FastPeriod, DancePeriod, SlowPeriod}

ClickBeats(numFrames, period) ==
    [i \in 1..numFrames |-> IF i % period = 0 THEN 90 ELSE 10]
ClickDownbeats(numFrames, period) ==
    [i \in 1..numFrames |-> IF i % (4 * period) = 0 THEN 80 ELSE 5]

\* AutocorrBpmEstimator::estimate(beats, downbeats, numFrames, apply); beside
\* it what the call gives without correction
EstimatePattern ==
    \E numFrames \in InputLengths, period \in ClickPeriods,
       applyOctaveCorrection \in BOOLEAN :
        /\ bench.kind = "none"
        /\ bench' = [kind |-> "estimator", op |-> "estimate",
                     numFrames |-> numFrames, period |-> period,
                     apply |-> applyOctaveCorrection,
                     raw |-> estimate(ClickBeats(numFrames, period),
                                      ClickDownbeats(numFrames, period),
                                      numFrames, FALSE),
                     ret |-> estimate(ClickBeats(numFrames, period),
                                      ClickDownbeats(numFrames, period),
                                      numFrames, applyOctaveCorrection)]
        /\ UNCHANGED << engineVars, call, hist, n, replay >>

\* the octave correction of estimate on the rounded BPM bpm
CorrectRounded ==
    \E bpm \in 0..MaxRawBpm, applyOctaveCorrection \in BOOLEAN :
        /\ bench.kind = "none"
        /\ bench' = [kind |-> "estimator", op |-> "correct",
                     numFrames |-> 0, period |-> 0,
                     apply |-> applyOctaveCorrection,
                     raw |-> bpm * BpmUnit,
                     ret |-> OctaveCorrect(bpm, applyOctaveCorrection)]
        /\ UNCHANGED << engineVars, call, hist, n, replay >>

EstimatorNext == EstimatePattern \/ CorrectRounded

SpecEstimator == Init /\ [][EstimatorNext]_vars

\* C22: estimate returns 0 for every input of fewer than 50 frames, whatever
\* the activations are and with octave correction on or off.
C22_ZeroBelowOneSecond ==
    (bench.kind = "estimator" /\ bench.op = "estimate" /\ bench.numFrames < 50)
        => bench.ret = 0

\* C22: an input of 49 frames with clicks has given 0, with correction on
C22_FortyNineFrames ==
    /\ bench.kind = "estimator" /\ bench.op = "estimate"
    /\ bench.numFrames = 49 /\ bench.period = DancePeriod /\ bench.apply
    /\ bench.ret = 0

\* the rounded BPM b is in the DJ range [75, 165]; b in BpmUnit
InDjRange(b) == b >= 75 * BpmUnit /\ b <= 165 * BpmUnit

\* C23: with b the rounded raw BPM, the corrected result is 2b if b < 75 and
\* 2b is in [75, 165], b/2 if b > 165 and b/2 is in [75, 165], and b
\* otherwise; with the correction disabled it is always b.  It holds for the
\* correction on every rounded BPM and for estimate against its own result
\* without correction.
C23_OctaveCorrection ==
    bench.kind = "estimator" =>
        LET b == bench.raw
        IN  bench.ret =
                IF ~bench.apply THEN b
                ELSE IF b < 75 * BpmUnit /\ InDjRange(2 * b) THEN 2 * b
                ELSE IF b > 165 * BpmUnit /\ InDjRange(b \div 2)
                     THEN b \div 2
                ELSE b

\* C23: an estimate above the range has been halved to a BPM in the range
C23_EstimateHalved ==
    /\ bench.kind = "estimator" /\ bench.op = "estimate" /\ bench.apply
    /\ bench.raw > 165 * BpmUnit
    /\ bench.ret * 2 = bench.raw /\ InDjRange(bench.ret)


(***************************************************************************)
(* The peak search of the estimator on its own: click patterns of every    *)
(* period up to MaxClickPeriod, of a second and more.                      *)
(***************************************************************************)
MaxClickPeriod == 60

PeakLengths == {FPS, FPS + 1, LongInput}

\* AutocorrBpm.hpp:62-81, estimate from the lag range to the integer peak:
\* [minLag, maxLag, autocorr, peakIdx]
IntegerPeak(beatActivations, downbeatActivations, numFrames) ==
    LET signal == [i \in 1..numFrames |-> beatActivations[i] + downbeatActivations[i]]
        minLag == (FPS * 60) \div MAX_BPM
        maxLag0 == (FPS * 60) \div MIN_BPM
        maxLag == IF maxLag0 >= numFrames THEN numFrames - 1 ELSE maxLag0
        autocorr == [k \in (minLag - 1)..(maxLag + 1) |->
                        IF k < numFrames THEN Autocorr(signal, k) ELSE 0]
    IN  [minLag |-> minLag, maxLag |-> maxLag, autocorr |-> autocorr,
         peakIdx |-> PeakFrom(autocorr, minLag + 1, maxLag, minLag)]

\* beat activations that are zero between the clicks
SparseBeats(numFrames, period) ==
    [i \in 1..numFrames |-> IF i % period = 0 THEN 100 ELSE 0]

\* estimator.estimate(beats, downbeats, numFrames): the peak it finds, for
\* clicks over a floor of activation and for clicks over silence
PeakOfPattern ==
    \E numFrames \in PeakLengths, period \in 1..MaxClickPeriod, sparse \in BOOLEAN :
        /\ bench.kind = "none"
        /\ bench' = [kind |-> "peak", numFrames |-> numFrames, period |-> period,
                     sparse |-> sparse]
                    @@ IF sparse
                       THEN IntegerPeak(SparseBeats(numFrames, period),
                                        [i \in 1..numFrames |-> 0], numFrames)
                       ELSE IntegerPeak(ClickBeats(numFrames, period),
                                        ClickDownbeats(numFrames, period), numFrames)
        /\ UNCHANGED << engineVars, call, hist, n, replay >>

SpecPeak == Init /\ [][PeakOfPattern]_vars

\* C32: for an input of N >= 50 frames the integer peak is a lag of the
\* closed range [17, min(50, N - 1)] whose autocorrelation is the maximum of
\* that range, so that the last lag of the range is chosen when it alone
\* holds the maximum.
C32_PeakInClosedRange ==
    bench.kind = "peak" =>
        LET lagMax == Min(50, bench.numFrames - 1)
        IN  /\ bench.peakIdx \in 17..lagMax
            /\ \A lag \in 17..lagMax :
                  bench.autocorr[lag] <= bench.autocorr[bench.peakIdx]

\* C32: clicks 50 frames apart, two and a half seconds of them: the
\* autocorrelation is largest at lag 50, and the peak found is lag 16
C32_SlowestLagMissed ==
    /\ bench.kind = "peak" /\ bench.numFrames = LongInput /\ bench.period = 50
    /\ bench.sparse
    /\ bench.maxLag = 50 /\ bench.minLag = 16
    /\ \A lag \in 16..49 : bench.autocorr[lag] < bench.autocorr[50]
    /\ bench.peakIdx = 16

\* what the loop finds: the first lag of [minLag, maxLag) whose
\* autocorrelation is the maximum of that range
PeakInHalfOpenRange ==
    bench.kind = "peak" =>
        /\ bench.minLag = 16 /\ bench.maxLag = Min(50, bench.numFrames - 1)
        /\ bench.peakIdx \in bench.minLag..(bench.maxLag - 1)
        /\ \A lag \in bench.minLag..(bench.maxLag - 1) :
              /\ bench.autocorr[lag] <= bench.autocorr[bench.peakIdx]
              /\ lag < bench.peakIdx => bench.autocorr[lag] < bench.autocorr[bench.peakIdx]

(***************************************************************************)
(* The resampler in block mode: one block of every length up to            *)
(* MaxBlockLength, of two levels.                                          *)
(***************************************************************************)
MaxBlockLength == 300

\* std::vector<float> output(resampler.getOutputSize(inputSize));
\* outputSize = resampler.process(input, inputSize, output)
BlockProcess ==
    \E len \in 0..MaxBlockLength, level \in {LowLevel, HighLevel} :
        /\ bench.kind = "none"
        /\ bench' = [kind |-> "block", len |-> len, level |-> level,
                     room |-> getOutputSize(len),
                     output |-> process(RConst(level, len))]
        /\ UNCHANGED << engineVars, call, hist, n, replay >>

SpecBlock == Init /\ [][BlockProcess]_vars

MaxFeedCalls == 3
MaxFeedResets == 1
LongFeedBlock == 29000

FeedBlocks ==
    {RConst(MidContent, len) :
        len \in {TinyBlock, HOP_LENGTH, WIN_LENGTH - MEL_PADDING, MelOddBlock,
                 MAX_FRAMES * HOP_LENGTH, LongFeedBlock}}

\* engine.loadModel(path)
FeedLoadModel ==
    /\ bench.kind = "none"
    /\ LoadModel(TRUE)
    /\ bench' = [kind |-> "feed", samplesTotal |-> 0, pushedTotal |-> 0,
                 calls |-> 0, resets |-> 0, longest |-> 0]
    /\ UNCHANGED << n, replay >>

\* engine.processAudioForBpm(block, n, nullptr, 0)
FeedAudio ==
    \E samples \in FeedBlocks :
        /\ bench.kind = "feed" /\ bench.calls < MaxFeedCalls
        /\ ProcessAudioForBpm(samples, FALSE, 0, {})
        /\ bench' = [bench EXCEPT !.samplesTotal = @ + RLen(samples),
                                  !.pushedTotal = @ + Len(call'.pushed),
                                  !.calls = @ + 1,
                                  !.longest = Max(@, RLen(samples))]
        /\ UNCHANGED << n, replay >>

\* engine.reset()
FeedReset ==
    /\ bench.kind = "feed" /\ bench.resets < MaxFeedResets /\ bench.calls > 0
    /\ Reset
    /\ bench' = [bench EXCEPT !.samplesTotal = 0, !.pushedTotal = 0,
                              !.resets = @ + 1, !.longest = 0]
    /\ UNCHANGED << n, replay >>

FeedNext == FeedLoadModel \/ FeedAudio \/ FeedReset

SpecFeed == Init /\ [][FeedNext]_vars

\* the mel frames of a stream of S samples
MelFramesDue(S) ==
    IF S < WIN_LENGTH - MEL_PADDING THEN 0
    ELSE 1 + (S - (WIN_LENGTH - MEL_PADDING)) \div HOP_LENGTH

\* no sample was dropped: the activations pushed are those of the frames of
\* all the samples passed in, and the mel extractor has written them all
NothingDropped ==
    /\ bench.pushedTotal = MelFramesDue(bench.samplesTotal)
    /\ melExtractor_.writePos = MEL_PADDING + bench.samplesTotal

\* C35: with the beat model loaded and every inference succeeding, however
\* a stream of S samples at the pipeline rate is split into
\* processAudioForBpm calls, blocks of more than 64 hops included, the
\* activations pushed since the reset are 0 for S < 706 and
\* 1 + (S - 706) div 441 otherwise, and every sample passed in is written to
\* the buffer of the mel extractor.
C35_NoSampleDropped ==
    bench.kind = "feed" => NothingDropped

\* C35: one call with 29000 samples on a new engine: 65 frames are due, 64
\* activations were pushed, and the mel extractor stopped writing at the
\* sample that completed the 64th frame
C35_LongBlockCutShort ==
    /\ bench.kind = "feed" /\ bench.calls = 1 /\ bench.resets = 0
    /\ bench.samplesTotal = LongFeedBlock
    /\ MelFramesDue(bench.samplesTotal) = 65
    /\ bench.pushedTotal = MAX_FRAMES
    /\ melExtractor_.writePos
          = MEL_PADDING + (WIN_LENGTH - MEL_PADDING) + (MAX_FRAMES - 1) * HOP_LENGTH

\* nothing is dropped while every block is shorter than 63 hops
ShortBlocksKept ==
    (bench.kind = "feed" /\ bench.longest <= (MAX_FRAMES - 1) * HOP_LENGTH)
        => NothingDropped

(***************************************************************************)
(* A stream at the input rate fed to processAudio in blocks of several     *)
(* sizes, the key model loaded before the first block and the beat model   *)
(* not.  Beside the engine the blocks are concatenated since the creation  *)
(* or the last reset.                                                      *)
(***************************************************************************)
MaxKeyFeedCalls == 3
MaxKeyFeedResets == 1

KeyFeedBlocks ==
    {RConst(v, len) : v \in {LowLevel, HighLevel},
                      len \in {CQT_HOP_LENGTH, OneSecond,
                               MAX_CQT_FRAMES * CQT_HOP_LENGTH, FiveSeconds}}

\* engine.loadKeyModel(path)
KeyFeedLoadKeyModel ==
    /\ bench.kind = "none"
    /\ LoadKeyModel(TRUE)
    /\ bench' = [kind |-> "keyfeed", input |-> << >>, calls |-> 0, resets |-> 0,
                 longest |-> 0]
    /\ UNCHANGED << n, replay >>

\* engine.processAudio(block, n, nullptr, 0)
KeyFeedAudio ==
    \E samples \in KeyFeedBlocks :
        /\ bench.kind = "keyfeed" /\ bench.calls < MaxKeyFeedCalls
        /\ ProcessAudio(samples, FALSE, 0, {}, TRUE)
        /\ bench' = [bench EXCEPT !.input = RCat(@, samples),
                                  !.calls = @ + 1,
                                  !.longest = Max(@, RLen(samples))]
        /\ UNCHANGED << n, replay >>

\* engine.reset()
KeyFeedReset ==
    /\ bench.kind = "keyfeed" /\ bench.resets < MaxKeyFeedResets /\ bench.calls > 0
    /\ Reset
    /\ bench' = [bench EXCEPT !.input = << >>, !.resets = @ + 1, !.longest = 0]
    /\ UNCHANGED << n, replay >>

KeyFeedNext == KeyFeedLoadKeyModel \/ KeyFeedAudio \/ KeyFeedReset

SpecKeyFeed == Init /\ [][KeyFeedNext]_vars

\* frame t (from 0) of the extractor for the stream so far
ExtractorFrame(t) ==
    Cqt_processFrame(RSub(RCat(RConst(0, CQT_PADDING), bench.input),
                          t * CQT_HOP_LENGTH, MAX_FILTER_LENGTH),
                     MAX_FILTER_LENGTH)

\* the key frame count is the frame count of the extractor, the number of
\* frames available for the samples of the stream, and the matrix holds
\* that many rows, row t the extractor's frame t
MatrixIsExtractorFrames ==
    /\ getKeyFrameCount = cqtExtractor_.frameCount
    /\ cqtExtractor_.frameCount = FramesAvailable(RLen(bench.input))
    /\ Len(cqtBuffer_) = getKeyFrameCount
    /\ \A t \in 1..Len(cqtBuffer_) :
          /\ Len(cqtBuffer_[t]) = Len(filterLengths)
          /\ cqtBuffer_[t] = ExtractorFrame(t - 1)

\* C36: with the key model loaded, after any sequence of processAudio calls
\* since the reset, blocks of more than 20 CQT hops included, the key frame
\* count is the frame count of the CQT extractor, the number of frames
\* available for the samples received, and the CQT matrix holds that many
\* rows, row t the extractor's frame t.
C36_KeyFramesAreExtractorFrames ==
    (bench.kind = "keyfeed" /\ isKeyReady) => MatrixIsExtractorFrames

\* C36: five seconds in one call and a second more: 29 frames became
\* available, 25 rows are in the matrix, and row 21 is frame 24 of the
\* extractor, not frame 20
C36_FramesBeyondTwentyLost ==
    /\ bench.kind = "keyfeed" /\ isKeyReady /\ bench.calls = 2 /\ bench.resets = 0
    /\ bench.input = RCat(RConst(LowLevel, FiveSeconds), RConst(HighLevel, OneSecond))
    /\ cqtExtractor_.frameCount = 29
    /\ getKeyFrameCount = 25
    /\ cqtBuffer_[21] = ExtractorFrame(24)
    /\ cqtBuffer_[21] # ExtractorFrame(20)

\* nothing is lost while no block is longer than 20 CQT hops
ShortKeyBlocksKept ==
    (bench.kind = "keyfeed" /\ isKeyReady
     /\ bench.longest <= MAX_CQT_FRAMES * CQT_HOP_LENGTH)
        => MatrixIsExtractorFrames

(***************************************************************************)
(* The key adapter on its own: a loaded adapter infers from matrices of    *)
(* one frame, chosen so that the network's largest output is at every      *)
(* class and its second largest at every class.                            *)
(***************************************************************************)
MaxKeyPattern == 599
KeyPatternStep == 1000

\* KeyModel model; model.load(path); model.inferVariable(cqt, 1, output)
KeyInfer ==
    \E k \in 0..MaxKeyPattern :
        /\ bench.kind = "none"
        /\ LET cqt == << << KeyPatternStep * k, 0 >> >>
               r == KeyModel_inferVariable([isLoaded |-> TRUE], cqt, 1, TRUE)
           IN  bench' = [kind |-> "key", ret |-> r.ret, output |-> r.output,
                         logits |-> KeyRun(Transpose(cqt, 1), 1)]
        /\ UNCHANGED << engineVars, call, hist, n, replay >>

SpecKey == Init /\ [][KeyInfer]_vars

\* the notation of the 24 classes, by class index
NotationByIndex ==
    << "G#m", "Ebm", "Bbm", "Fm", "Cm", "Gm", "Dm", "Am", "Em", "Bm", "F#m", "C#m",
       "B", "F#", "Db", "Ab", "Eb", "Bb", "F", "C", "G", "D", "A", "E" >>

AudioCalled == n'.calls = n.calls + 1 /\ call'.op = "processAudio"
AudioForBpmCalled == n'.calls = n.calls + 1 /\ call'.op = "processAudioForBpm"

\* the block that the processAudio call of the step was given
SamplesOfCall == CHOOSE b \in Blocks : RLen(b) = call'.numSamples

\* the frames at which the beat runtime failed in the call of the step
FailSetOfCall == IF n'.faults > n.faults THEN {FailedFrame} ELSE {}

\* processAudioForBpm on the members before the step, given the samples
\* that the resampler makes of the block of the step
BpmHalfOf(rs) ==
    processAudioForBpm(melExtractor_, beatnetModel_, activationBuffer_, rs.out,
                       call'.hasOut, call'.maxResults, FailSetOfCall)

\* the BPM-side members and the results after the step are those of b
BpmSideAs(b) ==
    b = [ret |-> call'.ret, mel |-> melExtractor_', model |-> beatnetModel_',
         ring |-> activationBuffer_', out |-> call'.out, pushed |-> call'.pushed,
         numFrames |-> call'.numFrames]

\* C25: a call of processAudioForBpm leaves the CQT extractor, the CQT
\* matrix, key_frame_count, the key-inference counters, the key result and
\* the resampler history as they were; and a call of processAudio with the
\* beat model ready leaves the mel extractor, the beat model, the ring and
\* the results exactly as processAudioForBpm leaves them when it is given
\* the samples that the resampler has made of the block.
C25_BpmOnlyCall ==
    /\ [][AudioForBpmCalled =>
             /\ UNCHANGED << cqtExtractor_, cqtBuffer_, cqtFrameCount_,
                             cqtFramesSinceInference_, keyInferenceCount_,
                             currentKey_, keyModel_ >>
             /\ resampler_' = resampler_]_vars
    /\ [][(AudioCalled /\ isReady) =>
             BpmSideAs(BpmHalfOf(
                 processStreaming(resampler_, SamplesOfCall,
                                  getOutputSize(call'.numSamples) + RESAMPLE_SLACK)))]_vars

\* C25: processAudioForBpm has pushed frames on an engine whose key model is
\* loaded and whose resampler has a history from an earlier processAudio
C25_BpmCallBesideKey ==
    /\ call.op = "processAudioForBpm" /\ Len(call.pushed) > 0
    /\ isKeyReady /\ n.calls = 2
    /\ resampler_ # Resampler_reset(resampler_)
    /\ cqtExtractor_.samplesReceived > 0


(***************************************************************************)
(* The command-line program (cli/main.cpp): the main thread loads the two  *)
(* models and starts the device; from then on the audio thread runs        *)
(* audioCallback for every block and the main thread runs printStatus,     *)
(* both on g_engine under g_mutex.  A thread is inside the engine from the *)
(* step before its first engine call to the step of its last one.          *)
(***************************************************************************)
BUFFER_SIZE == 882
MAX_RESULTS == 8
MaxCallbacks == 3
MaxStatusReads == 2
CliContent == 1

\* main: g_engine.loadModel(BPM_MODEL_PATH)
CliLoadModel ==
    /\ bench.kind = "none"
    /\ LoadModel(TRUE)
    /\ bench' = [kind |-> "cli", started |-> FALSE, g_mutex |-> "free",
                 audio |-> "idle", status |-> "idle", op |-> "load",
                 callbacks |-> 0, dropped |-> 0, processed |-> 0, reads |-> 0,
                 g_frameCount |-> 0, bpmFrames |-> 0, keyFrames |-> 0]
    /\ UNCHANGED << n, replay >>

\* main: g_engine.loadKeyModel(KEY_MODEL_PATH); ma_device_start
CliLoadKeyModel ==
    /\ bench.kind = "cli" /\ ~bench.started
    /\ LoadKeyModel(TRUE)
    /\ bench' = [bench EXCEPT !.started = TRUE, !.op = "load"]
    /\ UNCHANGED << n, replay >>

\* a faulty variant of the lock attempt of audioCallback: the callback goes
\* on whoever holds the lock
AudioEnterUnlocked ==
    /\ bench.kind = "cli" /\ bench.started
    /\ bench.audio = "idle" /\ bench.callbacks < MaxCallbacks
    /\ bench' = [bench EXCEPT !.g_mutex = "audio", !.audio = "holding",
                              !.op = "tryLock"]
    /\ UNCHANGED << engineVars, call, hist, n, replay >>

\* audioCallback: g_mutex.try_lock(); when it fails the callback returns
AudioTryLock ==
    /\ bench.kind = "cli" /\ bench.started
    /\ bench.audio = "idle" /\ bench.callbacks < MaxCallbacks
    /\ IF bench.g_mutex = "free"
       THEN bench' = [bench EXCEPT !.g_mutex = "audio", !.audio = "holding",
                                   !.op = "tryLock"]
       ELSE bench' = [bench EXCEPT !.callbacks = @ + 1, !.dropped = @ + 1,
                                   !.op = "drop"]
    /\ UNCHANGED << engineVars, call, hist, n, replay >>

\* audioCallback: the call of g_engine.processAudio begins
AudioEnter ==
    /\ bench.kind = "cli" /\ bench.audio = "holding"
    /\ bench' = [bench EXCEPT !.audio = "inside", !.op = "enter"]
    /\ UNCHANGED << engineVars, call, hist, n, replay >>

\* audioCallback: g_engine.processAudio(samples, frameCount, results,
\* MAX_RESULTS) returns; g_frameCount += numResults
AudioProcess ==
    /\ bench.kind = "cli" /\ bench.audio = "inside"
    /\ ProcessAudio(RConst(CliContent, BUFFER_SIZE), TRUE, MAX_RESULTS, {}, TRUE)
    /\ bench' = [bench EXCEPT !.audio = "after", !.op = "process",
                              !.processed = @ + 1,
                              !.g_frameCount = @ + call'.ret]
    /\ UNCHANGED << n, replay >>

\* audioCallback: g_mutex.unlock(), and the callback returns
AudioUnlock ==
    /\ bench.kind = "cli" /\ bench.audio = "after"
    /\ bench' = [bench EXCEPT !.g_mutex = "free", !.audio = "idle",
                              !.callbacks = @ + 1, !.op = "unlock"]
    /\ UNCHANGED << engineVars, call, hist, n, replay >>

\* printStatus: std::lock_guard lock(g_mutex), which waits for the lock
StatusLock ==
    /\ bench.kind = "cli" /\ bench.started
    /\ bench.status = "idle" /\ bench.reads < MaxStatusReads
    /\ bench.g_mutex = "free"
    /\ bench' = [bench EXCEPT !.g_mutex = "status", !.status = "holding",
                              !.op = "lock"]
    /\ UNCHANGED << engineVars, call, hist, n, replay >>

\* printStatus: the call of g_engine.getBpm begins
StatusEnter ==
    /\ bench.kind = "cli" /\ bench.status = "holding"
    /\ bench' = [bench EXCEPT !.status = "inside", !.op = "enter"]
    /\ UNCHANGED << engineVars, call, hist, n, replay >>

\* printStatus: getBpm, getFrameCount, getKey, getKeyFrameCount have returned
StatusRead ==
    /\ bench.kind = "cli" /\ bench.status = "inside"
    /\ bench' = [bench EXCEPT !.status = "after", !.op = "read",
                              !.bpmFrames = getFrameCount,
                              !.keyFrames = cqtFrameCount_]
    /\ UNCHANGED << engineVars, call, hist, n, replay >>

\* printStatus: the lock_guard goes out of scope
StatusUnlock ==
    /\ bench.kind = "cli" /\ bench.status = "after"
    /\ bench' = [bench EXCEPT !.g_mutex = "free", !.status = "idle",
                              !.reads = @ + 1, !.op = "unlock"]
    /\ UNCHANGED << engineVars, call, hist, n, replay >>

CliNext ==
    \/ CliLoadModel \/ CliLoadKeyModel
    \/ AudioTryLock \/ AudioEnter \/ AudioProcess \/ AudioUnlock
    \/ StatusLock \/ StatusEnter \/ StatusRead \/ StatusUnlock

SpecCli == Init /\ [][CliNext]_vars

\* the callback holds the lock / the status reader holds the lock
AudioHolds == bench.audio \in {"holding", "inside", "after"}
StatusHolds == bench.status \in {"holding", "inside", "after"}

\* C26: the callback is never waiting for the lock: it is outside the
\* callback or holds the lock, and between two callbacks the lock is not
\* its own; a lock attempt that finds the lock held by the status reader
\* ends the callback in that step, with the engine untouched and the block
\* dropped; and the callback and the status reader are never inside the
\* engine together.
C26_CallbackNeverBlocks ==
    /\ [](bench.kind = "cli" =>
            /\ bench.audio \in {"idle", "holding", "inside", "after"}
            /\ AudioHolds <=> bench.g_mutex = "audio"
            /\ StatusHolds <=> bench.g_mutex = "status"
            /\ ~(bench.audio = "inside" /\ bench.status = "inside"))
    /\ [][(bench.kind = "cli" /\ bench.audio = "idle" /\ bench.g_mutex = "status"
           /\ bench'.callbacks = bench.callbacks + 1)
          => /\ bench'.audio = "idle"
             /\ bench'.dropped = bench.dropped + 1
             /\ bench'.processed = bench.processed
             /\ UNCHANGED << engineVars, call >>]_vars

\* C26: a block has been dropped while the status reader is inside the
\* engine, after another block was processed
C26_BlockDropped ==
    /\ bench.kind = "cli" /\ bench.op = "drop"
    /\ bench.status = "inside" /\ bench.audio = "idle"
    /\ bench.dropped = 1 /\ bench.processed = 1
    /\ cqtExtractor_.samplesReceived = BUFFER_SIZE


(***************************************************************************)
(* The JNI bridge (android/src/main/cpp/EngineJNI.cpp): threads of the     *)
(* host call the entry points in any order.  g_engine is 0 for nullptr and *)
(* the number of the engine made by the latest new otherwise; of the       *)
(* engine the bridge sees whether the beat model is loaded and how many    *)
(* blocks it has processed.  A thread is inside an Engine method from the  *)
(* step that invokes it to the step in which it returns.                   *)
(***************************************************************************)
JniThreads == 2
MaxJniCalls == 4

JniEntries ==
    {"nativeInit", "nativeReset", "nativeDestroy", "nativeLoadModel",
     "nativeWarmUp", "nativeGetFrameCount", "nativeProcessAudio"}

NoEngine == [loaded |-> FALSE, blocks |-> 0]

\* the library is loaded: g_engine = nullptr
JniLoad ==
    /\ bench.kind = "none"
    /\ bench' = [kind |-> "jni", g_engine |-> 0, made |-> 0, engine |-> NoEngine,
                 g_engineMutex |-> 0, op |-> "load", by |-> 0, calls |-> 0,
                 pc |-> [t \in 1..JniThreads |-> "out"],
                 entry |-> [t \in 1..JniThreads |-> ""],
                 target |-> [t \in 1..JniThreads |-> 0],
                 ret |-> [t \in 1..JniThreads |-> 0]]
    /\ UNCHANGED << engineVars, call, hist, n, replay >>

\* thread t calls an entry point and comes to its lock_guard
JniCall(t) ==
    \E e \in JniEntries :
        /\ bench.kind = "jni" /\ bench.pc[t] = "out" /\ bench.calls < MaxJniCalls
        /\ bench' = [bench EXCEPT !.pc[t] = "waiting", !.entry[t] = e,
                                  !.calls = @ + 1, !.op = "call", !.by = t]
        /\ UNCHANGED << engineVars, call, hist, n, replay >>

\* std::lock_guard<std::mutex> lock(g_engineMutex)
JniLock(t) ==
    /\ bench.kind = "jni" /\ bench.pc[t] = "waiting" /\ bench.g_engineMutex = 0
    /\ bench' = [bench EXCEPT !.pc[t] = "locked", !.g_engineMutex = t,
                              !.op = "lock", !.by = t]
    /\ UNCHANGED << engineVars, call, hist, n, replay >>

\* a faulty variant of the entry points: the method is invoked whether or
\* not there is an engine
JniEnterUnchecked(t) ==
    /\ bench.kind = "jni" /\ bench.pc[t] = "locked"
    /\ bench' = [bench EXCEPT !.pc[t] = "inside", !.target[t] = bench.g_engine,
                              !.op = "invoke", !.by = t]
    /\ UNCHANGED << engineVars, call, hist, n, replay >>

\* the body of an entry point up to the Engine method: nativeInit makes an
\* engine if there is none, nativeDestroy deletes the one there is, the
\* others return false, 0 or null without an engine and invoke the method
\* with one
JniEnter(t) ==
    /\ bench.kind = "jni" /\ bench.pc[t] = "locked"
    /\ IF bench.entry[t] = "nativeInit"
       THEN IF bench.g_engine = 0
            THEN bench' = [bench EXCEPT !.g_engine = bench.made + 1,
                                        !.made = @ + 1, !.engine = NoEngine,
                                        !.pc[t] = "done", !.ret[t] = 0,
                                        !.op = "new", !.by = t]
            ELSE bench' = [bench EXCEPT !.pc[t] = "done", !.ret[t] = 0,
                                        !.op = "skip", !.by = t]
       ELSE IF bench.entry[t] = "nativeDestroy"
       THEN IF bench.g_engine # 0
            THEN bench' = [bench EXCEPT !.g_engine = 0, !.engine = NoEngine,
                                        !.pc[t] = "done", !.ret[t] = 0,
                                        !.op = "delete", !.by = t]
            ELSE bench' = [bench EXCEPT !.pc[t] = "done", !.ret[t] = 0,
                                        !.op = "skip", !.by = t]
       ELSE IF bench.g_engine = 0
       THEN bench' = [bench EXCEPT !.pc[t] = "done", !.ret[t] = 0,
                                   !.op = "refuse", !.by = t]
       ELSE bench' = [bench EXCEPT !.pc[t] = "inside",
                                   !.target[t] = bench.g_engine,
                                   !.op = "invoke", !.by = t]
    /\ UNCHANGED << engineVars, call, hist, n, replay >>

\* what the Engine method of entry point e leaves of the engine eng, and
\* what the entry point returns
JniMethod(e, eng) ==
    IF e = "nativeReset" THEN [engine |-> [eng EXCEPT !.blocks = 0], ret |-> 0]
    ELSE IF e = "nativeLoadModel" THEN [engine |-> [eng EXCEPT !.loaded = TRUE], ret |-> 1]
    ELSE IF e = "nativeWarmUp" THEN [engine |-> eng, ret |-> IF eng.loaded THEN 1 ELSE 0]
    ELSE IF e = "nativeGetFrameCount" THEN [engine |-> eng, ret |-> eng.blocks]
    ELSE [engine |-> IF eng.loaded THEN [eng EXCEPT !.blocks = @ + 1] ELSE eng,
          ret |-> IF eng.loaded THEN 1 ELSE 0]

\* the Engine method returns
JniReturn(t) ==
    /\ bench.kind = "jni" /\ bench.pc[t] = "inside"
    /\ LET r == JniMethod(bench.entry[t], bench.engine)
       IN  bench' = [bench EXCEPT !.engine = r.engine, !.ret[t] = r.ret,
                                  !.pc[t] = "done", !.op = "return", !.by = t]
    /\ UNCHANGED << engineVars, call, hist, n, replay >>

\* the lock_guard goes out of scope and the entry point returns
JniUnlock(t) ==
    /\ bench.kind = "jni" /\ bench.pc[t] = "done"
    /\ bench' = [bench EXCEPT !.pc[t] = "out", !.g_engineMutex = 0,
                              !.op = "unlock", !.by = t]
    /\ UNCHANGED << engineVars, call, hist, n, replay >>

JniNext ==
    \/ JniLoad
    \/ \E t \in 1..JniThreads :
          JniCall(t) \/ JniLock(t) \/ JniEnter(t) \/ JniReturn(t) \/ JniUnlock(t)

SpecJni == Init /\ [][JniNext]_vars

\* the threads inside an Engine method
JniInside == {t \in 1..JniThreads : bench.pc[t] = "inside"}

\* C27: at most one thread is inside an Engine method, and the engine it is
\* in is the one g_engine points to, which is not null; an entry point other
\* than nativeInit and nativeDestroy that finds no engine returns 0 (false,
\* null) without invoking a method; and nativeInit on an existing engine
\* leaves g_engine and the engine as they are.
C27_BridgeSerialises ==
    /\ [](bench.kind = "jni" =>
            /\ Cardinality(JniInside) <= 1
            /\ \A t \in JniInside :
                  bench.g_engine # 0 /\ bench.target[t] = bench.g_engine
            /\ \A t \in 1..JniThreads :
                  bench.pc[t] \in {"locked", "inside", "done"}
                      <=> bench.g_engineMutex = t)
    /\ [][\A t \in 1..JniThreads :
            (bench.kind = "jni" /\ bench.pc[t] = "locked"
             /\ bench'.pc[t] # "locked") =>
                /\ (bench.g_engine = 0
                    /\ bench.entry[t] \notin {"nativeInit", "nativeDestroy"})
                      => (bench'.pc[t] = "done" /\ bench'.ret[t] = 0
                          /\ bench'.g_engine = 0)
                /\ (bench.g_engine # 0 /\ bench.entry[t] = "nativeInit")
                      => (bench'.g_engine = bench.g_engine
                          /\ bench'.engine = bench.engine
                          /\ bench'.made = bench.made)]_vars

\* C27: a second nativeInit has found the engine of the first, which has a
\* model loaded, while the other thread waits for the lock
C27_SecondInit ==
    /\ bench.kind = "jni" /\ bench.op = "skip"
    /\ bench.entry[bench.by] = "nativeInit"
    /\ bench.g_engine = 1 /\ bench.engine.loaded
    /\ \E t \in 1..JniThreads : bench.pc[t] = "waiting"


(***************************************************************************)
(* Degenerate input (tests/test_error_handling.cpp): silence, a constant   *)
(* level, full-scale samples of alternating sign and loud input, given to  *)
(* a new streaming mel extractor and to the CQT extractor.  A level says   *)
(* how many half units of full scale (1.0) a sample is.                    *)
(***************************************************************************)
HalfScale == 1
FullScale == 2
LoudScale == 20
ShortestSignal == 1
ShortSignal == 1000
LongSignal == 2029

DegenerateLevels ==
    {0, HalfScale, FullScale, LoudScale, FloatMax \div WIN_LENGTH,
     FloatMax \div WIN_LENGTH + 1, FloatMax}

DegenerateLengths ==
    {ShortestSignal, WIN_LENGTH - MEL_PADDING, ShortSignal,
     WIN_LENGTH - MEL_PADDING + HOP_LENGTH, WIN_LENGTH,
     WIN_LENGTH - MEL_PADDING + 2 * HOP_LENGTH, LongSignal}

\* clippedAudio[i] = (i % 2 == 0) ? 1.0f : -1.0f
Clipped(len) ==
    [i \in 1..len |-> [v |-> IF i % 2 = 1 THEN FullScale ELSE -FullScale, n |-> 1]]

\* silence and the constant levels of either sign
ConstantSignals(len) ==
    {RConst(v, len) : v \in DegenerateLevels}
        \cup {RConst(-v, len) : v \in DegenerateLevels}

DegenerateSignals(len) == ConstantSignals(len) \cup {Clipped(len)}

\* the largest magnitude of a sample of the signal
Peak(signal) ==
    IF \E i \in 1..Len(signal) : Abs(signal[i].v) > 0
    THEN CHOOSE m \in {Abs(signal[i].v) : i \in 1..Len(signal)} :
            \A i \in 1..Len(signal) : Abs(signal[i].v) <= m
    ELSE 0

\* StreamingMelExtractor extractor; frames = extractor.push(audio, size, features, 100)
DegenerateMel ==
    \E len \in DegenerateLengths :
        \E signal \in DegenerateSignals(len) :
            /\ bench.kind = "none"
            /\ bench' = [kind |-> "degenerate", op |-> "mel", signal |-> signal,
                         frames |-> StreamingMel_push(StreamingMelInit, signal,
                                                      MelCapacity).frames,
                         cqtBins |-> << >>]
            /\ UNCHANGED << engineVars, call, hist, n, replay >>

\* CqtExtractor extractor; extractor.processFrame(audio, maxFilterLen, cqtBins)
DegenerateCqt ==
    \E signal \in ConstantSignals(MAX_FILTER_LENGTH) :
        /\ bench.kind = "none"
        /\ bench' = [kind |-> "degenerate", op |-> "cqt", signal |-> signal,
                     frames |-> << >>,
                     cqtBins |-> Cqt_processFrame(signal, MAX_FILTER_LENGTH)]
        /\ UNCHANGED << engineVars, call, hist, n, replay >>

DegenerateNext == DegenerateMel \/ DegenerateCqt

SpecDegenerate == Init /\ [][DegenerateNext]_vars

\* every mel feature and every CQT bin computed is finite and not negative
FeaturesFinite ==
    /\ \A f \in 1..Len(bench.frames) :
          /\ IsFinite(bench.frames[f].logMel) /\ bench.frames[f].logMel >= 0
          /\ IsFinite(bench.frames[f].diff) /\ bench.frames[f].diff >= 0
    /\ \A k \in 1..Len(bench.cqtBins) :
          IsFinite(bench.cqtBins[k]) /\ bench.cqtBins[k] >= 0

\* C28: for silent, constant, clipped and loud finite input of any amplitude,
\* every mel feature and every CQT bin is finite and not negative.
C28_FiniteFeatures ==
    bench.kind = "degenerate" => FeaturesFinite

\* C28: a constant finite input at the top of the float range has given a
\* mel frame whose band value is infinite
C28_ExtremeLevelOverflows ==
    /\ bench.kind = "degenerate" /\ bench.op = "mel"
    /\ bench.signal = RConst(FloatMax, WIN_LENGTH)
    /\ Len(bench.frames) = 2
    /\ bench.frames[2].logMel = Inf /\ bench.frames[2].diff = 0

\* the features are finite for the inputs of the tests: silence, a constant
\* half of full scale, full-scale clipping, ten times full scale
FeaturesFiniteUpToLoud ==
    (bench.kind = "degenerate" /\ Peak(bench.signal) <= LoudScale) => FeaturesFinite

(***************************************************************************)
(* The tempo an application reads: estimates with octave correction of     *)
(* inputs of a second and longer, and the value the ring caches while a    *)
(* click track of one period is pushed into it frame by frame.             *)
(***************************************************************************)
MaxTempoPushes == 200
OffsetSteps == 8
TempoPeriods == {1, FastPeriod, DancePeriod, SlowPeriod}

\* frame i of the pattern: clicks over a floor of activation, or over silence
TempoFrame(i, period, sparse) ==
    IF sparse
    THEN [beat |-> IF i % period = 0 THEN 100 ELSE 0, down |-> 0]
    ELSE [beat |-> IF i % period = 0 THEN 90 ELSE 10,
          down |-> IF i % (4 * period) = 0 THEN 80 ELSE 5]

\* estimator.estimate(beats, downbeats, numFrames, true); beside it what
\* the call gives without correction
TempoEstimate ==
    \E numFrames \in PeakLengths, period \in 1..MaxClickPeriod, sparse \in BOOLEAN :
        LET beats == [i \in 1..numFrames |-> TempoFrame(i, period, sparse).beat]
            downbeats == [i \in 1..numFrames |-> TempoFrame(i, period, sparse).down]
        IN  /\ bench.kind = "none"
            /\ bench' = [kind |-> "tempo", op |-> "estimate",
                         ring |-> ActivationBufferInit(DEFAULT_MAX_FRAMES),
                         numFrames |-> numFrames, period |-> period,
                         sparse |-> sparse, pushes |-> 0,
                         raw |-> estimate(beats, downbeats, numFrames, FALSE),
                         ret |-> estimate(beats, downbeats, numFrames, TRUE)]
            /\ UNCHANGED << engineVars, call, hist, n, replay >>

\* ActivationBuffer buffer; the ring of the engine
TempoNew ==
    \E period \in TempoPeriods, sparse \in BOOLEAN :
        /\ bench.kind = "none"
        /\ bench' = [kind |-> "tempo", op |-> "new",
                     ring |-> ActivationBufferInit(DEFAULT_MAX_FRAMES),
                     numFrames |-> 0, period |-> period, sparse |-> sparse,
                     pushes |-> 0, raw |-> 0, ret |-> 0]
        /\ UNCHANGED << engineVars, call, hist, n, replay >>

\* buffer.push(beat, downbeat) and buffer.getCachedBpm(); beside them the
\* estimate of the frames held without correction, at each recomputation
TempoPush ==
    /\ bench.kind = "tempo" /\ bench.op \in {"new", "push"}
    /\ bench.pushes < MaxTempoPushes
    /\ LET pair == TempoFrame(bench.pushes + 1, bench.period, bench.sparse)
           ring == ActivationBuffer_push(bench.ring, pair.beat, pair.down)
           acts == extractInOrder(ring)
       IN  bench' = [bench EXCEPT
                       !.op = "push", !.ring = ring, !.pushes = @ + 1,
                       !.numFrames = ring.count,
                       !.raw = IF ring.framesSinceLastCompute = 0
                               THEN estimate(acts.beat, acts.down, ring.count, FALSE)
                               ELSE @,
                       !.ret = ring.cachedBpm]
    /\ UNCHANGED << engineVars, call, hist, n, replay >>

\* estimate from the integer peak on, for every peak the loop can find in
\* an input of more than a second and every offset num / (2 * OffsetSteps)
\* of less than half a frame the refinement can add
TempoOfPeak ==
    \E peakIdx \in ((FPS * 60) \div MAX_BPM)..((FPS * 60) \div MIN_BPM - 1),
       num \in (1 - OffsetSteps)..(OffsetSteps - 1) :
        /\ bench.kind = "none"
        /\ bench' = [kind |-> "tempo", op |-> "peak",
                     ring |-> ActivationBufferInit(DEFAULT_MAX_FRAMES),
                     numFrames |-> FPS + 1, period |-> peakIdx, sparse |-> FALSE,
                     pushes |-> 0,
                     raw |-> OctaveCorrect(RoundBpm(peakIdx, num, 2 * OffsetSteps), FALSE),
                     ret |-> OctaveCorrect(RoundBpm(peakIdx, num, 2 * OffsetSteps), TRUE)]
        /\ UNCHANGED << engineVars, call, hist, n, replay >>

TempoNext == TempoEstimate \/ TempoOfPeak \/ TempoNew \/ TempoPush

SpecTempo == Init /\ [][TempoNext]_vars

\* C37: the estimate with octave correction of an input of 50 frames or
\* more lies in [75, 165], and so does every value other than 0 that the
\* ring caches for current_bpm.
C37_TempoInDjRange ==
    bench.kind = "tempo" =>
        /\ (bench.op \in {"estimate", "peak"} /\ bench.numFrames >= 50)
              => InDjRange(bench.ret)
        /\ bench.ring.cachedBpm # 0 => InDjRange(bench.ring.cachedBpm)

\* C37: clicks 17 frames apart over silence, pushed into the ring: found
\* without correction the tempo is above the range, and the ring caches
\* its half
C37_FastTempoHalved ==
    /\ bench.kind = "tempo" /\ bench.op = "push" /\ bench.sparse
    /\ bench.period = FastPeriod /\ bench.pushes >= MIN_FRAMES_FOR_BPM
    /\ bench.raw > 165 * BpmUnit
    /\ bench.ring.cachedBpm * 2 = bench.raw
    /\ InDjRange(bench.ring.cachedBpm)

\* the value current_bpm returns from the engine
CurrentBpmInDjRange == getBpm # 0 => InDjRange(getBpm)

====
